---- MODULE Spec2Model ----
(***************************************************************************)
(* A model of dfwinreg's Windows Registry virtualization layer:            *)
(*   dfwinreg/registry.py  WinRegistry (prefix table, GetKeyByPath)        *)
(*   dfwinreg/fake.py      FakeWinRegistryFile / FakeWinRegistryKey        *)
(*   dfwinreg/virtual.py   VirtualWinRegistryKey                           *)
(*   dfwinreg/key_paths.py JoinKeyPath / SplitKeyPath                      *)
(* Key paths are TLA+ strings handled character by character (Len, SubSeq, *)
(* \o), so that str.upper, str.startswith, str.partition and slicing are   *)
(* computed as the Python code computes them.                              *)
(***************************************************************************)
EXTENDS Integers, Sequences, FiniteSets, TLC

VARIABLES
  registry_files,   \* WinRegistry._registry_files: upper-cased prefix -> file
  file_prefix,      \* WinRegistryFile._key_path_prefix of every file object
  reader,           \* WinRegistry._registry_file_reader (fixed at construction)
  select,           \* values of the Select key inside the SYSTEM hive
  virtual_key,      \* a VirtualWinRegistryKey and the subkeys added to it
  queries,          \* how often virtual_key has called registry.GetKeyByPath
  last,             \* the last call on virtual_key and what it returned
  root_keys,        \* what each GetRootKey call returned or raised, in order
  close_calls,      \* how often Close was called on every file object
  deleted,          \* WinRegistry.__del__ has run
  find_spec         \* a FindSpec and the key path segments it holds

\* The registry's state beyond its table, and the searcher's
lifetime_vars == <<root_keys, close_calls, deleted>>

searcher_vars == <<find_spec>>

vars ==
  <<registry_files, file_prefix, reader, select, virtual_key, queries, last,
    lifetime_vars, searcher_vars>>

----------------------------------------------------------------------------
(* Python str primitives *)

KEY_PATH_SEPARATOR == "\\"

None == "<None>"

LowerCaseLetters == "abcdefghijklmnopqrstuvwxyz"

UpperCaseLetters == "ABCDEFGHIJKLMNOPQRSTUVWXYZ"

CharAt(s, i) == SubSeq(s, i, i)

\* str.upper() of one character, over the ASCII letters
UpperCharOf ==
  [c \in {CharAt(LowerCaseLetters, i) : i \in 1..Len(LowerCaseLetters)} |->
     CharAt(UpperCaseLetters,
            CHOOSE i \in 1..Len(LowerCaseLetters) : CharAt(LowerCaseLetters, i) = c)]

UpperChar(c) == IF c \in DOMAIN UpperCharOf THEN UpperCharOf[c] ELSE c

\* str.upper()
RECURSIVE Upper(_)
Upper(s) ==
  IF Len(s) = 0 THEN ""
  ELSE UpperChar(CharAt(s, 1)) \o Upper(SubSeq(s, 2, Len(s)))

\* str.startswith(p)
StartsWith(s, p) == Len(p) <= Len(s) /\ SubSeq(s, 1, Len(p)) = p

\* s[n:]
SliceFrom(s, n) == SubSeq(s, n + 1, Len(s))

\* index of the first separator of s at or after i, 0 when there is none
RECURSIVE FindSeparatorFrom(_, _)
FindSeparatorFrom(s, i) ==
  IF i > Len(s) THEN 0
  ELSE IF CharAt(s, i) = KEY_PATH_SEPARATOR THEN i
  ELSE FindSeparatorFrom(s, i + 1)

FindSeparator(s) == FindSeparatorFrom(s, 1)

\* s.partition(KEY_PATH_SEPARATOR): <<head, tail>>
Partition(s) ==
  LET i == FindSeparator(s) IN
  IF i = 0 THEN <<s, "">>
  ELSE <<SubSeq(s, 1, i - 1), SubSeq(s, i + 1, Len(s))>>

\* s.split(KEY_PATH_SEPARATOR): a sequence of (possibly empty) strings
RECURSIVE StrSplit(_)
StrSplit(s) ==
  LET i == FindSeparator(s) IN
  IF i = 0 THEN <<s>>
  ELSE <<SubSeq(s, 1, i - 1)>> \o StrSplit(SubSeq(s, i + 1, Len(s)))

\* KEY_PATH_SEPARATOR.join(segments)
RECURSIVE StrJoin(_)
StrJoin(segments) ==
  IF Len(segments) = 0 THEN ""
  ELSE IF Len(segments) = 1 THEN segments[1]
  ELSE segments[1] \o KEY_PATH_SEPARATOR \o StrJoin(Tail(segments))

\* filter(None, segments)
RECURSIVE FilterEmpty(_)
FilterEmpty(segments) ==
  IF Len(segments) = 0 THEN <<>>
  ELSE IF segments[1] = "" THEN FilterEmpty(Tail(segments))
  ELSE <<segments[1]>> \o FilterEmpty(Tail(segments))

RECURSIVE Flatten(_)
Flatten(lists) ==
  IF Len(lists) = 0 THEN <<>> ELSE lists[1] \o Flatten(Tail(lists))

----------------------------------------------------------------------------
(* dfwinreg/key_paths.py *)

\* JoinKeyPath without `filter(None, path_segments)`
JoinKeyPathUnfiltered(path_segments) ==
  LET split == [i \in 1..Len(path_segments) |-> StrSplit(path_segments[i])]
      key_path == StrJoin(Flatten(split))
  IN IF StartsWith(key_path, "HKEY_") THEN key_path
     ELSE KEY_PATH_SEPARATOR \o key_path

\* SplitKeyPath without `filter(None, ...)`
SplitKeyPathUnfiltered(key_path) == StrSplit(key_path)

JoinKeyPath(path_segments) ==
  LET split == [i \in 1..Len(path_segments) |-> StrSplit(path_segments[i])]
      key_path == StrJoin(FilterEmpty(Flatten(split)))
  IN IF StartsWith(key_path, "HKEY_") THEN key_path
     ELSE KEY_PATH_SEPARATOR \o key_path

SplitKeyPath(key_path) == FilterEmpty(StrSplit(key_path))

----------------------------------------------------------------------------
(* Hive backends: FakeWinRegistryFile objects with a fixed key hierarchy.   *)

\* Files the caller holds and passes to MapFile.
CallerFiles == {"callerNTUSER", "callerUSRCLASS", "callerSYSTEM"}

\* Files the registry file reader creates on Open.
ReaderFiles ==
  {"openNTUSER", "openUSRCLASS", "openSAM", "openSECURITY", "openSOFTWARE",
   "openSYSTEM"}

\* Files a caller opened and has not mapped yet: hives of every type, a
\* profile hive with the keys of both NTUSER.DAT and UsrClass.dat, a hive with
\* the keys of SYSTEM and SECURITY, one with those of NTUSER.DAT, UsrClass.dat
\* and SAM, a transaction log without keys, and a hive that holds only the
\* first part of a key path.
SignatureFiles ==
  {"hiveNTUSER", "hiveUSRCLASS", "hivePROFILE", "hiveSAM", "hiveSECURITY",
   "hiveSOFTWARE", "hiveSYSTEMSECURITY", "hivePROFILESAM", "hiveLOG",
   "hivePARTIAL"}

Files == CallerFiles \cup ReaderFiles \cup SignatureFiles

\* FakeWinRegistryFile.AddKeyByPath creates the keys along the key path:
\* the key paths of path_segments[1..n], for n = 1..Len(path_segments)
KeyPathsAlong(path_segments) ==
  [n \in 1..Len(path_segments) |->
     KEY_PATH_SEPARATOR \o StrJoin(SubSeq(path_segments, 1, n))]

ExplorerKeys ==
  KeyPathsAlong(<<"Software", "Microsoft", "Windows", "CurrentVersion",
                  "Explorer">>)

LocalSettingsKeys ==
  KeyPathsAlong(<<"Local Settings", "Software", "Microsoft", "Windows",
                  "CurrentVersion">>)

UsersKeys == KeyPathsAlong(<<"SAM", "Domains", "Account", "Users">>)

PolAdtEvKeys == KeyPathsAlong(<<"Policy", "PolAdtEv">>)

AppPathsKeys ==
  KeyPathsAlong(<<"Microsoft", "Windows", "CurrentVersion", "App Paths">>)

\* The key paths added to each file with AddKeyByPath, in the order added.
FileKeys(f) ==
  IF f = "hiveNTUSER" THEN ExplorerKeys
  ELSE IF f = "hiveUSRCLASS" THEN LocalSettingsKeys
  ELSE IF f = "hivePROFILE" THEN ExplorerKeys \o LocalSettingsKeys
  ELSE IF f = "hiveSAM" THEN UsersKeys
  ELSE IF f = "hiveSECURITY" THEN PolAdtEvKeys
  ELSE IF f = "hiveSOFTWARE" THEN AppPathsKeys
  ELSE IF f = "hiveSYSTEMSECURITY" THEN <<"\\Select">> \o PolAdtEvKeys
  ELSE IF f = "hivePROFILESAM"
  THEN ExplorerKeys \o LocalSettingsKeys \o UsersKeys
  ELSE IF f = "hivePARTIAL" THEN <<"\\Software", "\\Software\\Microsoft">>
  ELSE IF f \in {"callerNTUSER", "openNTUSER"} THEN
    <<"\\Software", "\\Software\\Classes", "\\Software\\Classes\\CLSID",
      "\\Environment">>
  ELSE IF f \in {"callerUSRCLASS", "openUSRCLASS"} THEN
    <<"\\CLSID", "\\Local Settings">>
  ELSE IF f \in {"callerSYSTEM", "openSYSTEM"} THEN
    <<"\\Select", "\\ControlSet001", "\\ControlSet001\\Enum",
      "\\ControlSet001\\X", "\\ControlSet002", "\\ControlSet002\\Enum",
      "\\CurrentControlSetX">>
  ELSE IF f = "openSOFTWARE" THEN <<"\\Microsoft">>
  ELSE <<>>

\* The upper-cased relative paths of the keys of f; "" is the root key.
FileKeysUpper ==
  [f \in Files |-> {Upper(FileKeys(f)[i]) : i \in 1..Len(FileKeys(f))}]

NoKey == [kind |-> "None", file |-> None, key |-> ""]

Key(f, key) == [kind |-> "key", file |-> f, key |-> key]

RuntimeError(message) == [kind |-> "RuntimeError", file |-> None, key |-> message]

\* FakeWinRegistryKey.GetSubkeyByName along path_segments, from the key `key`
RECURSIVE GetSubkeyBySegments(_, _, _)
GetSubkeyBySegments(f, key, path_segments) ==
  IF Len(path_segments) = 0 THEN Key(f, key)
  ELSE LET subkey == key \o KEY_PATH_SEPARATOR \o Upper(path_segments[1])
       IN IF subkey \in FileKeysUpper[f]
          THEN GetSubkeyBySegments(f, subkey, Tail(path_segments))
          ELSE NoKey

\* FakeWinRegistryFile.GetKeyByPath with the file's current key path prefix
FileGetKeyByPath(f, key_path_prefix, key_path) ==
  LET key_path_upper == Upper(key_path)
      walk(relative_key_path) ==
        IF Len(FileKeys(f)) = 0 THEN NoKey
        ELSE GetSubkeyBySegments(f, "", SplitKeyPath(relative_key_path))
  IN IF StartsWith(key_path_upper, Upper(key_path_prefix))
     THEN walk(SliceFrom(key_path, Len(key_path_prefix)))
     ELSE IF StartsWith(key_path, KEY_PATH_SEPARATOR) THEN walk(key_path)
     ELSE NoKey

\* Names of the subkeys of a key, in FakeWinRegistryKey._subkeys order
SubkeyNames(f, key) ==
  LET keys == FileKeys(f)
      IsChild(i) ==
        LET segments == SplitKeyPath(keys[i])
        IN /\ Len(segments) > 0
           /\ Upper(KEY_PATH_SEPARATOR \o StrJoin(segments))
                = key \o KEY_PATH_SEPARATOR \o Upper(segments[Len(segments)])
      Name(i) == LET segments == SplitKeyPath(keys[i]) IN segments[Len(segments)]
  IN FilterEmpty([i \in 1..Len(keys) |-> IF IsChild(i) THEN Name(i) ELSE ""])

----------------------------------------------------------------------------
(* Select values of the SYSTEM hive *)

REG_BINARY == 3

REG_DWORD == 4

REG_DWORD_BIG_ENDIAN == 5

REG_QWORD == 11

NoValue == [present |-> FALSE, data_type |-> 0, data |-> 0]

Value(data_type, data) == [present |-> TRUE, data_type |-> data_type, data |-> data]

\* WinRegistryValue.DataIsInteger
DataIsInteger(value) ==
  value.data_type \in {REG_DWORD, REG_DWORD_BIG_ENDIAN, REG_QWORD}

SelectValueNames == <<"Current", "Default", "LastKnownGood">>

\* FakeWinRegistryKey.GetValueByName on a key some file returned
GetValueByName(registry_key, name) ==
  IF /\ registry_key.kind = "key"
     /\ registry_key.file \in {"callerSYSTEM", "openSYSTEM"}
     /\ registry_key.key = "\\SELECT"
     /\ Upper(name) \in DOMAIN select
  THEN select[Upper(name)]
  ELSE NoValue

----------------------------------------------------------------------------
(* dfwinreg/registry.py: WinRegistry *)

Mapping(key_path_prefix, windows_path, unique_key_paths) ==
  [key_path_prefix |-> key_path_prefix, windows_path |-> windows_path,
   unique_key_paths |-> unique_key_paths]

REGISTRY_FILE_MAPPINGS_NT ==
  << Mapping("HKEY_CURRENT_USER", "%UserProfile%\\NTUSER.DAT",
       <<"\\Software\\Microsoft\\Windows\\CurrentVersion\\Explorer">>),
     Mapping("HKEY_CURRENT_USER\\Software\\Classes",
       "%UserProfile%\\AppData\\Local\\Microsoft\\Windows\\UsrClass.dat",
       <<"\\Local Settings\\Software\\Microsoft\\Windows\\CurrentVersion">>),
     Mapping("HKEY_CURRENT_USER\\Software\\Classes",
       "%UserProfile%\\Local Settings\\Application Data\\Microsoft\\Windows\\UsrClass.dat",
       <<>>),
     Mapping("HKEY_LOCAL_MACHINE\\SAM", "%SystemRoot%\\System32\\config\\SAM",
       <<"\\SAM\\Domains\\Account\\Users">>),
     Mapping("HKEY_LOCAL_MACHINE\\Security",
       "%SystemRoot%\\System32\\config\\SECURITY", <<"\\Policy\\PolAdtEv">>),
     Mapping("HKEY_LOCAL_MACHINE\\Software",
       "%SystemRoot%\\System32\\config\\SOFTWARE",
       <<"\\Microsoft\\Windows\\CurrentVersion\\App Paths">>),
     Mapping("HKEY_LOCAL_MACHINE\\System",
       "%SystemRoot%\\System32\\config\\SYSTEM", <<"\\Select">>) >>

\* An alias table that sends HKCU to another root key
RootKeyAliasesCrossed ==
  [alias \in {"HKCC", "HKCR", "HKCU", "HKLM", "HKU"} |->
     CASE alias = "HKCC" -> "HKEY_CURRENT_CONFIG"
       [] alias = "HKCR" -> "HKEY_CLASSES_ROOT"
       [] alias = "HKCU" -> "HKEY_CLASSES_ROOT"
       [] alias = "HKLM" -> "HKEY_LOCAL_MACHINE"
       [] alias = "HKU" -> "HKEY_USERS"]

ROOT_KEY_ALIASES ==
  [alias \in {"HKCC", "HKCR", "HKCU", "HKLM", "HKU"} |->
     CASE alias = "HKCC" -> "HKEY_CURRENT_CONFIG"
       [] alias = "HKCR" -> "HKEY_CLASSES_ROOT"
       [] alias = "HKCU" -> "HKEY_CURRENT_USER"
       [] alias = "HKLM" -> "HKEY_LOCAL_MACHINE"
       [] alias = "HKU" -> "HKEY_USERS"]

\* A set of root keys that lacks HKEY_USERS
RootKeysWithoutUsers ==
  {"HKEY_CLASSES_ROOT", "HKEY_CURRENT_CONFIG", "HKEY_CURRENT_USER",
   "HKEY_DYN_DATA", "HKEY_LOCAL_MACHINE", "HKEY_PERFORMANCE_DATA"}

ROOT_KEYS ==
  {"HKEY_CLASSES_ROOT", "HKEY_CURRENT_CONFIG", "HKEY_CURRENT_USER",
   "HKEY_DYN_DATA", "HKEY_LOCAL_MACHINE", "HKEY_PERFORMANCE_DATA",
   "HKEY_USERS"}

\* _VIRTUAL_KEYS holds this one entry, with callback _GetCurrentControlSet
VIRTUAL_KEY_PATH == "HKEY_LOCAL_MACHINE\\System\\CurrentControlSet"

\* virtual_key_path.upper()
VirtualKeyPathUpper == Upper(VIRTUAL_KEY_PATH)

\* The mutable part of a WinRegistry: its prefix table and, because MapFile
\* writes it, the key path prefix of every file object.
Registry(files, prefix) == [files |-> files, prefix |-> prefix]

\* WinRegistry.MapFile
MapFile(self, key_path_prefix, registry_file) ==
  LET key_path_prefix_upper == Upper(key_path_prefix)
  IN Registry(
       [p \in DOMAIN self.files \cup {key_path_prefix_upper} |->
          IF p = key_path_prefix_upper THEN registry_file ELSE self.files[p]],
       [self.prefix EXCEPT ![registry_file] = key_path_prefix])

\* A lookup that takes the shortest matching prefix instead of the longest
GetCachedFileByPathShortest(self, key_path_upper) ==
  LET matching ==
        {p \in DOMAIN self.files : StartsWith(key_path_upper, p) /\ Len(p) > 0}
  IN IF matching = {} THEN [prefix |-> None, file |-> None]
     ELSE LET shortest == CHOOSE p \in matching : \A q \in matching : Len(p) <= Len(q)
          IN [prefix |-> shortest, file |-> self.files[shortest]]

\* WinRegistry._GetCachedFileByPath
GetCachedFileByPath(self, key_path_upper) ==
  LET matching ==
        {p \in DOMAIN self.files : StartsWith(key_path_upper, p) /\ Len(p) > 0}
  IN IF matching = {} THEN [prefix |-> None, file |-> None]
     ELSE LET longest_key_path_prefix_upper ==
                CHOOSE p \in matching : \A q \in matching : Len(q) <= Len(p)
          IN [prefix |-> longest_key_path_prefix_upper,
              file |-> self.files[longest_key_path_prefix_upper]]

\* candidate_mappings.sort(key=len(key_path_prefix), reverse=True): stable
RECURSIVE SortLongestFirst(_)
SortLongestFirst(mappings) ==
  IF Len(mappings) = 0 THEN <<>>
  ELSE LET first ==
             CHOOSE i \in 1..Len(mappings) :
               /\ \A j \in 1..Len(mappings) :
                    Len(mappings[j].key_path_prefix) <= Len(mappings[i].key_path_prefix)
               /\ \A j \in 1..(i - 1) :
                    Len(mappings[j].key_path_prefix) < Len(mappings[i].key_path_prefix)
       IN <<mappings[first]>> \o
            SortLongestFirst(SubSeq(mappings, 1, first - 1) \o
                             SubSeq(mappings, first + 1, Len(mappings)))

\* mapping.key_path_prefix.upper() of every mapping of the table
MappingPrefixUpper ==
  [prefix \in {REGISTRY_FILE_MAPPINGS_NT[i].key_path_prefix :
                 i \in 1..Len(REGISTRY_FILE_MAPPINGS_NT)} |-> Upper(prefix)]

\* _GetFileMappingsByPath without the sort: the candidates in table order
GetFileMappingsByPathUnsorted(key_path_upper) ==
  LET IsCandidate(mapping) ==
        StartsWith(key_path_upper, MappingPrefixUpper[mapping.key_path_prefix])
  IN SelectSeq(REGISTRY_FILE_MAPPINGS_NT, IsCandidate)

\* WinRegistry._GetFileMappingsByPath
GetFileMappingsByPath(key_path_upper) ==
  LET IsCandidate(mapping) ==
        StartsWith(key_path_upper, MappingPrefixUpper[mapping.key_path_prefix])
  IN SortLongestFirst(SelectSeq(REGISTRY_FILE_MAPPINGS_NT, IsCandidate))

\* WinRegistry._OpenFile: a file, None, or "IOError" when the reader raises
OpenFile(path) ==
  IF reader.present THEN reader.open[path] ELSE None

\* _GetFileByPath from its loop on: cached is what _GetCachedFileByPath
\* returned, mappings what _GetFileMappingsByPath returned
OpenMappedFile(self, cached, mappings) ==
  LET Opens(i) == OpenFile(mappings[i].windows_path) \notin {None, "IOError"}
  IN IF cached.file # None
     THEN [prefix |-> cached.prefix, file |-> cached.file, self |-> self]
     ELSE IF \E i \in 1..Len(mappings) : Opens(i)
     THEN LET i == CHOOSE i \in 1..Len(mappings) :
                     Opens(i) /\ \A j \in 1..(i - 1) : ~Opens(j)
              registry_file == OpenFile(mappings[i].windows_path)
              key_path_prefix ==
                IF cached.prefix \in {None, ""}
                THEN mappings[i].key_path_prefix ELSE cached.prefix
          IN [prefix |-> Upper(key_path_prefix), file |-> registry_file,
              self |-> MapFile(self, key_path_prefix, registry_file)]
     ELSE [prefix |-> cached.prefix, file |-> None, self |-> self]

\* WinRegistry._GetFileByPath
GetFileByPath(self, key_path_upper) ==
  OpenMappedFile(self, GetCachedFileByPath(self, key_path_upper),
                 GetFileMappingsByPath(key_path_upper))

\* '{0:d}'.format(n): no zero padding
FormatUnpadded(n) ==
  LET Digit(d) == CharAt("0123456789", d + 1)
  IN IF n < 10 THEN Digit(n)
     ELSE IF n < 100 THEN Digit(n \div 10) \o Digit(n % 10)
     ELSE Digit(n \div 100) \o Digit((n \div 10) % 10) \o Digit(n % 10)

\* '{0:03d}'.format(n) for 0 <= n <= 999
Format03d(n) ==
  LET Digit(d) == CharAt("0123456789", d + 1)
  IN Digit(n \div 100) \o Digit((n \div 10) % 10) \o Digit(n % 10)

MaxControlSet == 999

RECURSIVE GetKeyByPath(_, _)

\* Python's None for control_set
NoControlSet == [none |-> TRUE, value |-> 0]

\* The loop of _GetCurrentControlSet over SelectValueNames[i..]
RECURSIVE ControlSetLoop(_, _, _)
ControlSetLoop(select_key, i, control_set) ==
  IF i > Len(SelectValueNames) THEN control_set
  ELSE LET value == GetValueByName(select_key, SelectValueNames[i])
       IN IF ~value.present \/ ~DataIsInteger(value)
          THEN ControlSetLoop(select_key, i + 1, control_set)
          ELSE IF value.data > 0 \/ value.data <= MaxControlSet
          THEN [none |-> FALSE, value |-> value.data]
          ELSE ControlSetLoop(select_key, i + 1,
                              [none |-> FALSE, value |-> value.data])

\* _GetCurrentControlSet once GetKeyByPath returned the Select key: got is
\* its result and the registry after the call
CurrentControlSetOf(got) ==
  LET select_key == got.result
      control_set == ControlSetLoop(select_key, 1, NoControlSet)
  IN IF select_key.kind # "key" THEN [path |-> None, self |-> got.self]
     ELSE IF \/ control_set.none \/ control_set.value = 0
             \/ control_set.value <= 0 \/ control_set.value > MaxControlSet
     THEN [path |-> None, self |-> got.self]
     ELSE [path |-> "HKEY_LOCAL_MACHINE\\System\\ControlSet"
                      \o Format03d(control_set.value),
           self |-> got.self]

\* WinRegistry._GetCurrentControlSet: [path, self], path None if unresolved
GetCurrentControlSet(self) ==
  CurrentControlSetOf(GetKeyByPath(self, "HKEY_LOCAL_MACHINE\\System\\Select"))

\* GetKeyByPath once the file is looked up: got is what _GetFileByPath
\* returned, resolved what _GetCurrentControlSet returns after it
KeyOfFile(self, root_key_path, key_path, key_path_upper, got, resolved) ==
  LET is_virtual == StartsWith(key_path_upper, VirtualKeyPathUpper)
      virtual_key_path_length ==
        IF /\ Len(key_path) > Len(VIRTUAL_KEY_PATH)
           /\ CharAt(key_path, Len(VIRTUAL_KEY_PATH) + 1) = KEY_PATH_SEPARATOR
        THEN Len(VIRTUAL_KEY_PATH) + 1 ELSE Len(VIRTUAL_KEY_PATH)
      resolved_key_path ==
        IF is_virtual
        THEN resolved.path \o KEY_PATH_SEPARATOR
               \o SliceFrom(key_path, virtual_key_path_length)
        ELSE key_path
      self_after == IF is_virtual THEN resolved.self ELSE got.self
      relative_key_path == SliceFrom(resolved_key_path, Len(got.prefix))
  IN IF root_key_path \notin ROOT_KEYS
     THEN [result |-> RuntimeError("Unsupported root key"), self |-> self]
     ELSE IF got.file = None THEN [result |-> NoKey, self |-> got.self]
     ELSE IF ~StartsWith(key_path_upper, got.prefix)
     THEN [result |-> RuntimeError("Key path prefix mismatch."),
           self |-> got.self]
     ELSE IF is_virtual /\ resolved.path = None
     THEN [result |-> RuntimeError("Unable to resolve virtual key"),
           self |-> resolved.self]
     ELSE [result |->
             FileGetKeyByPath(got.file, self_after.prefix[got.file],
               IF relative_key_path = "" THEN KEY_PATH_SEPARATOR
               ELSE relative_key_path),
           self |-> self_after]

\* GetKeyByPath once the root key alias is replaced: the file is looked up,
\* and the current control set when the key path is under the virtual key
KeyOfPath(self, root_key_path, key_path, key_path_upper, got) ==
  KeyOfFile(self, root_key_path, key_path, key_path_upper, got,
            IF StartsWith(key_path_upper, VirtualKeyPathUpper)
            THEN GetCurrentControlSet(got.self)
            ELSE [path |-> None, self |-> got.self])

\* The root key of a key path, with an alias replaced by the key it names
RootKeyPath(root_key_path_upper) ==
  IF root_key_path_upper \in DOMAIN ROOT_KEY_ALIASES
  THEN ROOT_KEY_ALIASES[root_key_path_upper] ELSE root_key_path_upper

\* The key path GetKeyByPath continues with after the partition
AliasedKeyPath(root_key_path, key_path) ==
  root_key_path \o KEY_PATH_SEPARATOR \o key_path

\* GetKeyByPath from the upper-cased key path on
KeyOfUpper(self, root_key_path, key_path, key_path_upper) ==
  KeyOfPath(self, root_key_path, key_path, key_path_upper,
            GetFileByPath(self, key_path_upper))

\* GetKeyByPath from the partitioned key path on
KeyOfParts(self, root_key_path, key_path) ==
  KeyOfUpper(self, root_key_path, AliasedKeyPath(root_key_path, key_path),
             Upper(AliasedKeyPath(root_key_path, key_path)))

\* WinRegistry.GetKeyByPath: [result, self], result a key, NoKey or RuntimeError
GetKeyByPath(self, key_path0) ==
  KeyOfParts(self, RootKeyPath(Upper(Partition(key_path0)[1])),
             Partition(key_path0)[2])

\* What GetRegistryFileMapping returns or raises
Prefix(key_path_prefix) == [raised |-> "", key_path_prefix |-> key_path_prefix]

MappingError == [raised |-> "RuntimeError", key_path_prefix |-> ""]

\* A GetRegistryFileMapping that takes the first candidate of several
FirstCandidate(candidate_mappings) ==
  Prefix(candidate_mappings[1].key_path_prefix)

\* GetRegistryFileMapping from `if len(candidate_mappings) == 1` on
ResolveCandidates(candidate_mappings) ==
  LET key_path_prefixes ==
        {candidate_mappings[i].key_path_prefix :
           i \in 1..Len(candidate_mappings)}
      expected_key_path_prefixes ==
        {"HKEY_CURRENT_USER", "HKEY_CURRENT_USER\\Software\\Classes"}
  IN IF Len(candidate_mappings) = 1
     THEN Prefix(candidate_mappings[1].key_path_prefix)
     ELSE IF key_path_prefixes = expected_key_path_prefixes
     THEN Prefix("HKEY_CURRENT_USER")
     ELSE MappingError

\* The loop of GetRegistryFileMapping: does the file match the mapping
MatchesMapping(registry_file, key_path_prefix, mapping) ==
  /\ Len(mapping.unique_key_paths) > 0
  /\ \A i \in 1..Len(mapping.unique_key_paths) :
       FileGetKeyByPath(registry_file, key_path_prefix,
                        mapping.unique_key_paths[i]).kind = "key"

\* WinRegistry.GetRegistryFileMapping; key_path_prefix is the key path prefix
\* the file object holds when it is asked for its keys
GetRegistryFileMapping(registry_file, key_path_prefix) ==
  LET Matches(mapping) ==
        MatchesMapping(registry_file, key_path_prefix, mapping)
      candidate_mappings == SelectSeq(REGISTRY_FILE_MAPPINGS_NT, Matches)
  IN IF registry_file = None THEN Prefix("")
     ELSE IF Len(candidate_mappings) = 0 THEN Prefix("")
     ELSE ResolveCandidates(candidate_mappings)

\* _MAPPED_KEYS: the key path prefixes of _REGISTRY_FILE_MAPPINGS_NT
MAPPED_KEYS ==
  {REGISTRY_FILE_MAPPINGS_NT[i].key_path_prefix :
     i \in 1..Len(REGISTRY_FILE_MAPPINGS_NT)}

\* WinRegistry.SplitKeyPath returns filter(None, ...), which the interpreter
\* of this package (fake.py and virtual.py hold f-strings) gives as an
\* iterator object and not as a list
RegistrySplitKeyPath(key_path) ==
  [type |-> "filter", items |-> FilterEmpty(StrSplit(key_path))]

\* not key_path_segments: only an empty list is falsy
IsFalsy(key_path_segments) ==
  key_path_segments.type = "list" /\ Len(key_path_segments.items) = 0

\* What key_path_segments[:-1] raises, "" when it raises nothing
SliceRaises(key_path_segments) ==
  IF key_path_segments.type = "list" THEN "" ELSE "TypeError"

\* What GetRootKey returns or raises. A root key is the root_key-th
\* VirtualWinRegistryKey('') that GetRootKey built; subkeys are its subkeys,
\* each with its name and the names of its own subkeys.
RootKey(root_key, subkeys) ==
  [kind |-> "key", root_key |-> root_key, subkeys |-> subkeys]

RootKeyRaised(exception) ==
  [kind |-> exception, root_key |-> 0, subkeys |-> <<>>]

\* WinRegistry.GetRootKey, as the built-th call on the registry. The loop
\* body from `registry_key = root_registry_key` on is reached only after
\* key_path_segments[:-1], which raises for every mapped key.
GetRootKey(self, built) ==
  LET reached ==
        {mapped_key \in MAPPED_KEYS :
           ~IsFalsy(RegistrySplitKeyPath(mapped_key))}
  IN IF \E mapped_key \in reached :
          SliceRaises(RegistrySplitKeyPath(mapped_key)) # ""
     THEN RootKeyRaised("TypeError")
     ELSE RootKey(built, <<>>)

\* WinRegistry.__del__: how often it calls Close on registry_file
CloseCalls(self, registry_file) ==
  Cardinality({key_path_prefix_upper \in DOMAIN self.files :
                 /\ self.files[key_path_prefix_upper] # None
                 /\ self.files[key_path_prefix_upper] = registry_file})

\* WinRegistry.__del__: the table it leaves
Del(self) ==
  Registry([key_path_prefix_upper \in DOMAIN self.files |-> None],
           self.prefix)

----------------------------------------------------------------------------
(* dfwinreg/virtual.py: VirtualWinRegistryKey *)

\* VirtualWinRegistryKey(name, key_path_prefix=..., registry=...,
\* relative_key_path=...); registry is TRUE when a WinRegistry was passed.
VirtualWinRegistryKey(name, key_path_prefix, registry, relative_key_path) ==
  [name |-> name, key_path_prefix |-> key_path_prefix,
   relative_key_path |-> relative_key_path, registry |-> registry,
   registry_key |-> NoKey, subkeys |-> <<>>,
   subkeys_by_name |-> [n \in {} |-> 0]]

\* A key that is added as a subkey: a VirtualWinRegistryKey(name) built by
\* the caller (file is None), or the key `key` of a hive.
Subkey(name, file, key) ==
  [name |-> name, file |-> file, key |-> key,
   key_path_prefix |-> "", relative_key_path |-> ""]

\* VirtualWinRegistryKey._JoinKeyPath
VirtualJoinKeyPath(path_segments) ==
  LET split == [i \in 1..Len(path_segments) |-> StrSplit(path_segments[i])]
  IN StrJoin(FilterEmpty(Flatten(split)))

\* The key path a virtual key asks the registry for
KeyPath(key) == JoinKeyPath(<<key.key_path_prefix, key.relative_key_path>>)

\* The subkey with the key path AddSubkey gives it:
\* registry_key._key_path_prefix and registry_key._relative_key_path
Stamped(vk, name, registry_key) ==
  [registry_key EXCEPT
     !.key_path_prefix = vk.key_path_prefix,
     !.relative_key_path = VirtualJoinKeyPath(<<vk.relative_key_path, name>>)]

\* An AddSubkey that keys the subkeys by the name as given
AddSubkeyCaseSensitive(vk, name, registry_key) ==
  IF name \in DOMAIN vk.subkeys_by_name
  THEN [vk |-> vk, raised |-> "KeyError", registry_key |-> registry_key]
  ELSE [vk |->
          [vk EXCEPT
             !.subkeys_by_name =
                [n \in DOMAIN vk.subkeys_by_name \cup {name} |->
                   IF n = name THEN Len(vk.subkeys) ELSE vk.subkeys_by_name[n]],
             !.subkeys = Append(vk.subkeys, Stamped(vk, name, registry_key))],
        raised |-> "", registry_key |-> Stamped(vk, name, registry_key)]

\* An AddSubkey that appends the subkey before it looks for the name
AddSubkeyAppendFirst(vk, name, registry_key) ==
  LET name_upper == Upper(name)
      appended ==
        [vk EXCEPT
           !.subkeys = Append(vk.subkeys, Stamped(vk, name, registry_key))]
  IN IF name_upper \in DOMAIN vk.subkeys_by_name
     THEN [vk |-> appended, raised |-> "KeyError",
           registry_key |-> Stamped(vk, name, registry_key)]
     ELSE [vk |->
             [appended EXCEPT
                !.subkeys_by_name =
                   [n \in DOMAIN vk.subkeys_by_name \cup {name_upper} |->
                      IF n = name_upper THEN Len(vk.subkeys)
                      ELSE vk.subkeys_by_name[n]]],
           raised |-> "", registry_key |-> Stamped(vk, name, registry_key)]

\* VirtualWinRegistryKey.AddSubkey: the key after the call and what it raised
AddSubkey(vk, name, registry_key) ==
  LET name_upper == Upper(name)
  IN IF name_upper \in DOMAIN vk.subkeys_by_name
     THEN [vk |-> vk, raised |-> "KeyError", registry_key |-> registry_key]
     ELSE [vk |->
             [vk EXCEPT
                !.subkeys_by_name =
                   [n \in DOMAIN vk.subkeys_by_name \cup {name_upper} |->
                      IF n = name_upper THEN Len(vk.subkeys)
                      ELSE vk.subkeys_by_name[n]],
                !.subkeys =
                   Append(vk.subkeys, Stamped(vk, name, registry_key))],
           raised |-> "", registry_key |-> Stamped(vk, name, registry_key)]

\* The loop of _GetKeyFromRegistry over the subkeys of the registry key:
\* it ends at the first AddSubkey that raises.
RECURSIVE AddSubkeys(_, _, _)
AddSubkeys(vk, registry_key, names) ==
  IF Len(names) = 0
  THEN [vk |-> vk, raised |-> "", registry_key |-> registry_key]
  ELSE LET sub_registry_key ==
             Subkey(names[1], registry_key.file,
                    registry_key.key \o KEY_PATH_SEPARATOR \o Upper(names[1]))
           added == AddSubkey(vk, names[1], sub_registry_key)
       IN IF added.raised # "" THEN added
          ELSE AddSubkeys(added.vk, registry_key, Tail(names))

\* A try that lets the RuntimeError through
RaiseRuntimeError(result) == result

\* try: ... except RuntimeError: pass, around registry.GetKeyByPath
ExceptRuntimeError(result) ==
  IF result.kind = "RuntimeError" THEN NoKey ELSE result

\* _GetKeyFromRegistry once registry.GetKeyByPath returned or raised: got is
\* its result and the registry after the call
KeyFromRegistry(vk, got) ==
  LET registry_key == ExceptRuntimeError(got.result)
      with_key == [vk EXCEPT !.registry_key = registry_key]
      added == AddSubkeys(with_key, registry_key,
                          SubkeyNames(registry_key.file, registry_key.key))
  IN IF registry_key.kind = "RuntimeError"
     THEN [vk |-> vk, self |-> got.self, raised |-> "RuntimeError",
           queried |-> 1]
     ELSE IF registry_key.kind # "key"
     THEN [vk |-> with_key, self |-> got.self, raised |-> "", queried |-> 1]
     ELSE IF added.raised # ""
     THEN [vk |-> added.vk, self |-> got.self, raised |-> added.raised,
           queried |-> 1]
     ELSE [vk |-> [added.vk EXCEPT !.registry = FALSE], self |-> got.self,
           raised |-> "", queried |-> 1]

\* VirtualWinRegistryKey._GetKeyFromRegistry: the key and the registry after
\* the call, what it raised, and how often it called registry.GetKeyByPath
GetKeyFromRegistry(vk, registry) ==
  IF ~vk.registry
  THEN [vk |-> vk, self |-> registry, raised |-> "", queried |-> 0]
  ELSE KeyFromRegistry(vk, GetKeyByPath(registry, KeyPath(vk)))

\* if not self._registry_key and self._registry: self._GetKeyFromRegistry()
Materialized(vk, registry) ==
  IF vk.registry_key.kind # "key" /\ vk.registry
  THEN GetKeyFromRegistry(vk, registry)
  ELSE [vk |-> vk, self |-> registry, raised |-> "", queried |-> 0]

\* What a call on a virtual key returns or raises. The reads below take m,
\* the outcome of the guard every read starts with (Materialized).
NoneResult == [kind |-> "None", value |-> <<>>]

IntResult(n) == [kind |-> "int", value |-> <<n>>]

SubkeyResult(subkey) == [kind |-> "subkey", value |-> <<subkey>>]

SubkeysResult(subkeys) == [kind |-> "subkeys", value |-> subkeys]

ValueResult(value) ==
  IF value.present THEN [kind |-> "value", value |-> <<value>>] ELSE NoneResult

ValuesResult(values) == [kind |-> "values", value |-> values]

AttributeResult(attribute, registry_key) ==
  [kind |-> attribute, value |-> <<registry_key>>]

Raised(exception) == [kind |-> exception, value |-> <<>>]

SelfResult == [kind |-> "self", value |-> <<>>]

\* A call on a virtual key: the key and the registry after it, its result,
\* and how often it called registry.GetKeyByPath
Returned(m, result) ==
  [vk |-> m.vk, self |-> m.self, queried |-> m.queried,
   result |-> IF m.raised # "" THEN Raised(m.raised) ELSE result]

\* FakeWinRegistryKey.GetValues of a key some file returned
GetValues(registry_key) ==
  LET Present(name) == GetValueByName(registry_key, name).present
      names == SelectSeq(SelectValueNames, Present)
  IN [i \in 1..Len(names) |-> GetValueByName(registry_key, names[i])]

\* VirtualWinRegistryKey.class_name
VirtualClassName(m) ==
  Returned(m, IF m.vk.registry_key.kind # "key" THEN NoneResult
            ELSE AttributeResult("class_name", m.vk.registry_key))

\* VirtualWinRegistryKey.last_written_time
VirtualLastWrittenTime(m) ==
  Returned(m, IF m.vk.registry_key.kind # "key" THEN NoneResult
            ELSE AttributeResult("last_written_time", m.vk.registry_key))

\* VirtualWinRegistryKey.number_of_subkeys
VirtualNumberOfSubkeys(m) ==
  Returned(m, IntResult(Len(m.vk.subkeys)))

\* VirtualWinRegistryKey.number_of_values
VirtualNumberOfValues(m) ==
  Returned(m, IF m.vk.registry_key.kind = "key"
            THEN IntResult(Len(GetValues(m.vk.registry_key)))
            ELSE IntResult(0))

\* VirtualWinRegistryKey.offset
VirtualOffset(m) ==
  Returned(m, IF m.vk.registry_key.kind # "key" THEN NoneResult
            ELSE AttributeResult("offset", m.vk.registry_key))

\* VirtualWinRegistryKey.GetSubkeyByIndex
VirtualGetSubkeyByIndex(m, index) ==
  Returned(m, IF index < 0 \/ index >= Len(m.vk.subkeys)
            THEN Raised("IndexError")
            ELSE SubkeyResult(m.vk.subkeys[index + 1]))

\* self._subkeys_by_name.get(name.upper(), None), then self._subkeys[index]
SubkeyByName(vk, name) ==
  IF Upper(name) \in DOMAIN vk.subkeys_by_name
  THEN SubkeyResult(vk.subkeys[vk.subkeys_by_name[Upper(name)] + 1])
  ELSE NoneResult

\* VirtualWinRegistryKey.GetSubkeyByName
VirtualGetSubkeyByName(m, name) ==
  Returned(m, SubkeyByName(m.vk, name))

\* GetSubkeyByName on a subkey, along the rest of a key path: a subkey the
\* caller built has no subkeys, a key of a hive has the hive's.
RECURSIVE SubkeyBySegments(_, _)
SubkeyBySegments(subkey, path_segments) ==
  IF Len(path_segments) = 0 THEN SubkeyResult(subkey)
  ELSE IF subkey.file = None THEN NoneResult
  ELSE LET key == subkey.key \o KEY_PATH_SEPARATOR \o Upper(path_segments[1])
       IN IF key \in FileKeysUpper[subkey.file]
          THEN SubkeyBySegments(
                 [subkey EXCEPT !.name = path_segments[1], !.key = key,
                    !.relative_key_path =
                       VirtualJoinKeyPath(<<subkey.relative_key_path,
                                            path_segments[1]>>)],
                 Tail(path_segments))
          ELSE NoneResult

\* VirtualWinRegistryKey.GetSubkeyByPath
VirtualGetSubkeyByPath(m, key_path) ==
  LET path_segments == SplitKeyPath(key_path)
      first == SubkeyByName(m.vk, path_segments[1])
  IN Returned(m, IF Len(path_segments) = 0 THEN SelfResult
                 ELSE IF first.kind # "subkey" THEN NoneResult
                 ELSE SubkeyBySegments(first.value[1], Tail(path_segments)))

\* VirtualWinRegistryKey.GetSubkeys
VirtualGetSubkeys(m) ==
  Returned(m, SubkeysResult(m.vk.subkeys))

\* VirtualWinRegistryKey.GetValueByName
VirtualGetValueByName(m, name) ==
  Returned(m, IF m.vk.registry_key.kind # "key" THEN NoneResult
            ELSE ValueResult(GetValueByName(m.vk.registry_key, name)))

\* VirtualWinRegistryKey.GetValues
VirtualGetValues(m) ==
  Returned(m, IF m.vk.registry_key.kind = "key"
            THEN ValuesResult(GetValues(m.vk.registry_key))
            ELSE ValuesResult(<<>>))

----------------------------------------------------------------------------
(* The registry's callers *)

WindowsPaths ==
  {REGISTRY_FILE_MAPPINGS_NT[i].windows_path :
     i \in 1..Len(REGISTRY_FILE_MAPPINGS_NT)}

NoReader == [present |-> FALSE, open |-> [path \in WindowsPaths |-> None]]

\* A reader that opens every conventional hive at its current location.
MappedReader ==
  [present |-> TRUE,
   open |-> [path \in WindowsPaths |->
     CASE path = "%UserProfile%\\NTUSER.DAT" -> "openNTUSER"
       [] path = "%UserProfile%\\AppData\\Local\\Microsoft\\Windows\\UsrClass.dat"
            -> "openUSRCLASS"
       [] path = "%SystemRoot%\\System32\\config\\SAM" -> "openSAM"
       [] path = "%SystemRoot%\\System32\\config\\SECURITY" -> "openSECURITY"
       [] path = "%SystemRoot%\\System32\\config\\SOFTWARE" -> "openSOFTWARE"
       [] path = "%SystemRoot%\\System32\\config\\SYSTEM" -> "openSYSTEM"
       [] OTHER -> None]]

\* A reader over an older profile layout: NTUSER.DAT cannot be read, the
\* UsrClass.dat hive is at its Local Settings location, SYSTEM opens.
LegacyReader ==
  [present |-> TRUE,
   open |-> [path \in WindowsPaths |->
     CASE path = "%UserProfile%\\NTUSER.DAT" -> "IOError"
       [] path = "%UserProfile%\\Local Settings\\Application Data\\Microsoft\\Windows\\UsrClass.dat"
            -> "openUSRCLASS"
       [] path = "%SystemRoot%\\System32\\config\\SYSTEM" -> "openSYSTEM"
       [] OTHER -> None]]

Readers == {NoReader, MappedReader, LegacyReader}

\* The MapFile calls callers make: each conventional hive under the prefix
\* GetRegistryFileMapping returns for it, an unrecognised hive under "", the
\* UsrClass hive under a second prefix, and a hive without a Select key under
\* the System prefix written in lower case.
MapCalls ==
  {<<"HKEY_CURRENT_USER", "callerNTUSER">>,
   <<"HKEY_CURRENT_USER\\Software\\Classes", "callerUSRCLASS">>,
   <<"HKEY_CURRENT_USER", "callerUSRCLASS">>,
   <<"HKEY_LOCAL_MACHINE\\System", "callerSYSTEM">>,
   <<"hkey_local_machine\\system", "callerNTUSER">>,
   <<"", "callerSYSTEM">>}

\* Key paths callers ask for.
KeyPaths ==
  {"HKEY_CURRENT_USER\\Software\\Classes\\CLSID",
   "HKEY_CURRENT_USER\\Environment",
   "HKEY_CURRENT_USER",
   "HKCU\\Software\\Classes\\CLSID",
   "hkcu\\environment",
   "HKey_Current_User\\Software\\Bogus",
   "HKEY_LOCAL_MACHINE\\System\\CurrentControlSet\\Enum",
   "HKEY_LOCAL_MACHINE\\System\\CurrentControlSet",
   "HKEY_LOCAL_MACHINE\\System\\ControlSet001\\Enum",
   "HKEY_LOCAL_MACHINE\\System\\ControlSet001",
   "HKEY_LOCAL_MACHINE\\System\\ControlSet002\\Enum",
   "HKLM\\System\\Select",
   "HKEY_LOCAL_MACHINE\\System\\Bogus",
   "HKEY_USERS\\S-1-5-18",
   "HKEY_BOGUS\\Software\\Bogus",
   "\\HKEY_CURRENT_USER\\Software",
   ""}

\* Select keys of the SYSTEM hive the model is run with.
SelectValues ==
  {NoValue, Value(REG_BINARY, 1), Value(REG_DWORD, 0), Value(REG_DWORD, 1),
   Value(REG_DWORD, 2), Value(REG_DWORD, -1), Value(REG_QWORD, 1000)}

NoCall == [op |-> "None", result |-> NoneResult]

\* FindSpec(): no key path, _key_path_segments is None
NoFindSpec ==
  [is_regex |-> FALSE, has_key_path_segments |-> FALSE,
   key_path_segments |-> <<>>, number_of_key_path_segments |-> 0]

\* A registry nothing was asked of yet, and no find specification
Untouched ==
  /\ root_keys = <<>>
  /\ close_calls = [f \in Files |-> 0]
  /\ deleted = FALSE
  /\ find_spec = NoFindSpec

\* WinRegistry.GetRootKey starts from VirtualWinRegistryKey('')
RootVirtualKey == VirtualWinRegistryKey("", "", FALSE, "")

self == Registry(registry_files, file_prefix)

\* FakeWinRegistryKey._values is keyed by the upper-cased value name
SelectNames == {"CURRENT", "DEFAULT", "LASTKNOWNGOOD"}

Selects == [SelectNames -> SelectValues]

Init ==
  /\ registry_files = [p \in {} |-> None]
  /\ file_prefix = [f \in Files |-> ""]
  /\ reader \in Readers
  /\ select \in {[n \in SelectNames |-> NoValue],
                 [n \in SelectNames |->
                    IF n = "CURRENT" THEN Value(REG_DWORD, 1) ELSE NoValue]}
  /\ virtual_key = RootVirtualKey
  /\ queries = 0
  /\ last = NoCall
  /\ Untouched

\* win_registry.MapFile(key_path_prefix, registry_file)
DoMapFile ==
  \E call \in MapCalls :
    LET after == MapFile(self, call[1], call[2])
    IN /\ registry_files' = after.files
       /\ file_prefix' = after.prefix
       /\ UNCHANGED <<reader, select, virtual_key, queries, last,
                      lifetime_vars, searcher_vars>>

\* win_registry.GetKeyByPath(key_path): what it returns is
\* GetKeyByPath(self, key_path).result, what it leaves behind is the table
\* with the files it opened and mapped on demand.
DoGetKeyByPath ==
  \E key_path \in KeyPaths :
    LET got == GetKeyByPath(self, key_path)
    IN /\ registry_files' = got.self.files
       /\ file_prefix' = got.self.prefix
       /\ UNCHANGED <<reader, select, virtual_key, queries, last,
                      lifetime_vars, searcher_vars>>

Next == DoMapFile \/ DoGetKeyByPath

Spec == Init /\ [][Next]_vars

----------------------------------------------------------------------------
(* Properties of WinRegistry.GetKeyByPath, checked under Spec *)

\* The first segment of a key path, upper-cased, with a root alias replaced
\* by the root key it stands for.
ResolvedRoot(key_path) ==
  LET root == Upper(Partition(key_path)[1])
  IN CASE root = "HKCC" -> "HKEY_CURRENT_CONFIG"
       [] root = "HKCR" -> "HKEY_CLASSES_ROOT"
       [] root = "HKCU" -> "HKEY_CURRENT_USER"
       [] root = "HKLM" -> "HKEY_LOCAL_MACHINE"
       [] root = "HKU" -> "HKEY_USERS"
       [] OTHER -> root

SupportedRoot(key_path) ==
  ResolvedRoot(key_path) \in
    {"HKEY_CLASSES_ROOT", "HKEY_CURRENT_CONFIG", "HKEY_CURRENT_USER",
     "HKEY_DYN_DATA", "HKEY_LOCAL_MACHINE", "HKEY_PERFORMANCE_DATA",
     "HKEY_USERS"}

\* The alias-resolved key path, upper-cased.
ResolvedPathUpper(key_path) ==
  ResolvedRoot(key_path) \o KEY_PATH_SEPARATOR \o Upper(Partition(key_path)[2])

UnsupportedRoot == RuntimeError("Unsupported root key")

Mapped(key_path_prefix_upper, registry_file) ==
  /\ key_path_prefix_upper \in DOMAIN registry_files
  /\ registry_files[key_path_prefix_upper] = registry_file

\* C1: a key GetKeyByPath returns comes from the backend mapped at the longest
\* prefix of the table (as it is once the lookup has mapped what it opened)
\* that is a prefix of the alias-resolved upper-cased path; with NTUSER mapped
\* at HKEY_CURRENT_USER and UsrClass at HKEY_CURRENT_USER\Software\Classes, in
\* whichever order, ...\Software\Classes\CLSID is the UsrClass hive's CLSID
\* key and ...\Environment is the NTUSER hive's Environment key.
C1_LongestPrefixMatch ==
  /\ \A key_path \in KeyPaths :
       LET got == GetKeyByPath(self, key_path)
           matching == {p \in DOMAIN got.self.files :
                          StartsWith(ResolvedPathUpper(key_path), p)}
       IN got.result.kind = "key" =>
            \E p \in matching :
              /\ \A q \in matching : Len(q) <= Len(p)
              /\ got.result.file = got.self.files[p]
  /\ ( /\ Mapped("HKEY_CURRENT_USER", "callerNTUSER")
       /\ Mapped("HKEY_CURRENT_USER\\SOFTWARE\\CLASSES", "callerUSRCLASS") )
     => /\ GetKeyByPath(self, "HKEY_CURRENT_USER\\Software\\Classes\\CLSID").result
             = Key("callerUSRCLASS", "\\CLSID")
        /\ GetKeyByPath(self, "HKEY_CURRENT_USER\\Environment").result
             = Key("callerNTUSER", "\\ENVIRONMENT")

C1_Witness ==
  /\ Mapped("HKEY_CURRENT_USER", "callerNTUSER")
  /\ Mapped("HKEY_CURRENT_USER\\SOFTWARE\\CLASSES", "callerUSRCLASS")
  /\ GetKeyByPath(self, "HKEY_CURRENT_USER\\Software\\Classes\\CLSID").result
       = Key("callerUSRCLASS", "\\CLSID")

\* C2: GetKeyByPath raises RuntimeError "Unsupported root key" exactly for the
\* key paths whose first segment, upper-cased and alias-resolved, is not one
\* of the seven root keys, whatever the table holds.
C2_UnsupportedRoot ==
  \A key_path \in KeyPaths :
    (~SupportedRoot(key_path))
      <=> (GetKeyByPath(self, key_path).result = UnsupportedRoot)

C2_Witness ==
  /\ Mapped("HKEY_CURRENT_USER", "callerNTUSER")
  /\ GetKeyByPath(self, "HKEY_BOGUS\\Software\\Bogus").result = UnsupportedRoot
  /\ GetKeyByPath(self, "hkcu\\environment").result
       = Key("callerNTUSER", "\\ENVIRONMENT")

\* Root aliases in several letter cases with the root key each stands for, and
\* remainders of key paths.
AliasedPaths ==
  {<<"HKCU", "HKEY_CURRENT_USER", "Software\\Classes\\CLSID">>,
   <<"hkcu", "HKEY_CURRENT_USER", "Environment">>,
   <<"HkCu", "hkey_current_user", "Software\\Bogus">>,
   <<"HKCU", "HKEY_CURRENT_USER", "">>,
   <<"HKLM", "HKEY_LOCAL_MACHINE", "System\\Select">>,
   <<"hklm", "Hkey_Local_Machine", "System\\CurrentControlSet\\Enum">>,
   <<"HKLM", "HKEY_LOCAL_MACHINE", "Software\\Microsoft">>,
   <<"HKCR", "HKEY_CLASSES_ROOT", "CLSID">>,
   <<"HKCC", "HKEY_CURRENT_CONFIG", "System">>,
   <<"HKU", "HKEY_USERS", "S-1-5-18">>}

\* C3: in every state of the registry, GetKeyByPath of an alias-rooted path
\* and of the same path under the full root key name return equal results,
\* in any letter case of the root segment.
C3_AliasEquivalence ==
  \A t \in AliasedPaths :
    GetKeyByPath(self, t[1] \o KEY_PATH_SEPARATOR \o t[3]).result
      = GetKeyByPath(self, t[2] \o KEY_PATH_SEPARATOR \o t[3]).result

C3_Witness ==
  /\ GetKeyByPath(self, "hkcu\\Environment").result
       = Key("callerNTUSER", "\\ENVIRONMENT")
  /\ GetKeyByPath(self, "HKEY_CURRENT_USER\\Environment").result
       = Key("callerNTUSER", "\\ENVIRONMENT")
  /\ GetKeyByPath(self, "HKLM\\System\\Select").result.kind = "key"

\* C6: GetKeyByPath on a key path with a supported root raises nothing: a
\* missing key, an unmapped prefix and an unresolvable current control set
\* all give None.
C6_NotFoundIsAbsence ==
  \A key_path \in KeyPaths :
    SupportedRoot(key_path)
      => GetKeyByPath(self, key_path).result.kind # "RuntimeError"

----------------------------------------------------------------------------
(* The current control set: a registry over a SYSTEM hive, for every Select  *)
(* key the hive can hold.                                                   *)

SystemKeyPaths ==
  {"HKEY_LOCAL_MACHINE\\System\\CurrentControlSet\\Enum",
   "HKEY_LOCAL_MACHINE\\System\\CurrentControlSet",
   "HKEY_LOCAL_MACHINE\\System\\ControlSet001\\Enum",
   "HKEY_LOCAL_MACHINE\\System\\Select"}

InitSelect ==
  /\ registry_files = [p \in {} |-> None]
  /\ file_prefix = [f \in Files |-> ""]
  /\ reader \in {NoReader, MappedReader}
  /\ select \in Selects
  /\ virtual_key = RootVirtualKey
  /\ queries = 0
  /\ last = NoCall
  /\ Untouched

\* win_registry.MapFile('HKEY_LOCAL_MACHINE\\System', registry_file)
MapSystemFile ==
  LET after == MapFile(self, "HKEY_LOCAL_MACHINE\\System", "callerSYSTEM")
  IN /\ registry_files' = after.files
     /\ file_prefix' = after.prefix
     /\ UNCHANGED <<reader, select, virtual_key, queries, last,
                      lifetime_vars, searcher_vars>>

\* win_registry.GetKeyByPath(key_path) for the key paths of the SYSTEM hive
GetSystemKeyByPath ==
  \E key_path \in SystemKeyPaths :
    LET got == GetKeyByPath(self, key_path)
    IN /\ registry_files' = got.self.files
       /\ file_prefix' = got.self.prefix
       /\ UNCHANGED <<reader, select, virtual_key, queries, last,
                      lifetime_vars, searcher_vars>>

NextSelect == MapSystemFile \/ GetSystemKeyByPath

SpecSelect == InitSelect /\ [][NextSelect]_vars

\* The control set number the loop over Current, Default, LastKnownGood of
\* the mapped hive's Select key ends with
LoopControlSet ==
  ControlSetLoop(GetKeyByPath(self, "HKEY_LOCAL_MACHINE\\System\\Select").result,
                 1, NoControlSet)

\* Control set numbers with their three-digit names, and remainders below the
\* control set key ("" for the control set key itself).
ControlSetNames == <<"ControlSet001", "ControlSet002">>

Remainders == {"", "\\Enum", "\\X", "\\Bogus", "\\enum"}

\* C4: when the SYSTEM hive is mapped and its Select key resolves control set
\* N, GetKeyByPath of HKEY_LOCAL_MACHINE\System\CurrentControlSet\R and of
\* HKEY_LOCAL_MACHINE\System\ControlSetNNN\R return the same key of the hive,
\* for every remainder R, the empty one included.
C4_VirtualControlSet ==
  \A n \in 1..Len(ControlSetNames), remainder \in Remainders :
    ( /\ GetCurrentControlSet(self).path # None
      /\ LoopControlSet = [none |-> FALSE, value |-> n] )
    => GetKeyByPath(self, "HKEY_LOCAL_MACHINE\\System\\CurrentControlSet"
                            \o remainder).result
         = GetKeyByPath(self, "HKEY_LOCAL_MACHINE\\System\\"
                            \o ControlSetNames[n] \o remainder).result

C4_Witness ==
  /\ Mapped("HKEY_LOCAL_MACHINE\\SYSTEM", "callerSYSTEM")
  /\ select["CURRENT"] = Value(REG_BINARY, 1)
  /\ select["DEFAULT"] = Value(REG_DWORD, 2)
  /\ GetKeyByPath(self, "HKEY_LOCAL_MACHINE\\System\\CurrentControlSet\\Enum").result
       = Key("callerSYSTEM", "\\CONTROLSET002\\ENUM")
  /\ GetKeyByPath(self, "HKEY_LOCAL_MACHINE\\System\\CurrentControlSet").result
       = Key("callerSYSTEM", "\\CONTROLSET002")

\* A Select value that is present, of an integer type and within [1, 999]
Usable(value) ==
  /\ value.present
  /\ value.data_type \in {REG_DWORD, REG_DWORD_BIG_ENDIAN, REG_QWORD}
  /\ value.data >= 1
  /\ value.data <= 999

\* The first usable value among Current, Default, LastKnownGood; 0 if none
FirstUsable ==
  IF Usable(select["CURRENT"]) THEN select["CURRENT"].data
  ELSE IF Usable(select["DEFAULT"]) THEN select["DEFAULT"].data
  ELSE IF Usable(select["LASTKNOWNGOOD"]) THEN select["LASTKNOWNGOOD"].data
  ELSE 0

\* C5: with the SYSTEM hive mapped, _GetCurrentControlSet returns the control
\* set key of the first of Current, Default, LastKnownGood that is present,
\* integer and within [1, 999], skipping every candidate that is not, and
\* None only when no candidate qualifies.
C5_FirstUsableCandidate ==
  Mapped("HKEY_LOCAL_MACHINE\\SYSTEM", "callerSYSTEM")
  => GetCurrentControlSet(self).path
       = IF FirstUsable = 0 THEN None
         ELSE "HKEY_LOCAL_MACHINE\\System\\" \o ControlSetNames[FirstUsable]

----------------------------------------------------------------------------
(* A virtual key over the registry: callers add subkeys to it and read it,  *)
(* and a SYSTEM hive is mapped before, between or after the reads.          *)

\* The virtual keys callers construct: over the SYSTEM hive, without a key
\* path, over the current control set, over the Select key, and one that was
\* given no registry.
VirtualKeys ==
  {VirtualWinRegistryKey("System", "HKEY_LOCAL_MACHINE", TRUE, "System"),
   VirtualWinRegistryKey("", "", TRUE, ""),
   VirtualWinRegistryKey("CurrentControlSet", "HKEY_LOCAL_MACHINE\\System",
                         TRUE, "CurrentControlSet"),
   VirtualWinRegistryKey("Select", "HKEY_LOCAL_MACHINE\\System", TRUE, "Select"),
   VirtualWinRegistryKey("Software", "HKEY_LOCAL_MACHINE", FALSE, "Software")}

\* Names of the subkeys callers add
SubkeyNamesAdded == {"ControlSet001", "controlset001"}

\* Arguments of the reads
Indexes == {-1, 0}

NamesAsked == {"CONTROLSET001", "Bogus"}

PathsAsked == {"", "ControlSet001\\Enum"}

ValueNamesAsked == {"Current"}

\* A virtual key calls registry.GetKeyByPath at most this often
MaxQueries == 2

InitVirtual ==
  /\ registry_files = [p \in {} |-> None]
  /\ file_prefix = [f \in Files |-> ""]
  /\ reader \in {NoReader, MappedReader}
  /\ select \in {[n \in SelectNames |-> NoValue],
                 [n \in SelectNames |->
                    IF n = "CURRENT" THEN Value(REG_DWORD, 1) ELSE NoValue]}
  /\ virtual_key \in VirtualKeys
  /\ queries = 0
  /\ last = NoCall
  /\ Untouched

\* A call op on virtual_key that returned r
Call(op, r) ==
  /\ queries + r.queried <= MaxQueries
  /\ virtual_key' = r.vk
  /\ registry_files' = r.self.files
  /\ file_prefix' = r.self.prefix
  /\ queries' = queries + r.queried
  /\ last' = [op |-> op, result |-> r.result]
  /\ UNCHANGED <<reader, select, lifetime_vars, searcher_vars>>

\* virtual_key.AddSubkey(name, VirtualWinRegistryKey(name))
DoAddSubkey ==
  \E name \in SubkeyNamesAdded :
    LET added == AddSubkey(virtual_key, name, Subkey(name, None, ""))
    IN /\ virtual_key' = added.vk
       /\ last' = [op |-> "AddSubkey",
                   result |-> IF added.raised # "" THEN Raised(added.raised)
                              ELSE SubkeyByName(added.vk, name)]
       /\ UNCHANGED <<registry_files, file_prefix, reader, select, queries,
                      lifetime_vars, searcher_vars>>

DoClassName == Call("class_name", VirtualClassName(Materialized(virtual_key, self)))

DoLastWrittenTime ==
  Call("last_written_time", VirtualLastWrittenTime(Materialized(virtual_key, self)))

DoNumberOfSubkeys ==
  Call("number_of_subkeys", VirtualNumberOfSubkeys(Materialized(virtual_key, self)))

DoNumberOfValues ==
  Call("number_of_values", VirtualNumberOfValues(Materialized(virtual_key, self)))

DoOffset == Call("offset", VirtualOffset(Materialized(virtual_key, self)))

DoGetSubkeyByIndex ==
  \E index \in Indexes :
    Call("GetSubkeyByIndex", VirtualGetSubkeyByIndex(Materialized(virtual_key, self), index))

DoGetSubkeyByName ==
  \E name \in NamesAsked :
    Call("GetSubkeyByName", VirtualGetSubkeyByName(Materialized(virtual_key, self), name))

DoGetSubkeyByPath ==
  \E key_path \in PathsAsked :
    Call("GetSubkeyByPath", VirtualGetSubkeyByPath(Materialized(virtual_key, self), key_path))

DoGetSubkeys == Call("GetSubkeys", VirtualGetSubkeys(Materialized(virtual_key, self)))

DoGetValueByName ==
  \E name \in ValueNamesAsked :
    Call("GetValueByName", VirtualGetValueByName(Materialized(virtual_key, self), name))

DoGetValues == Call("GetValues", VirtualGetValues(Materialized(virtual_key, self)))

NextVirtual ==
  \/ MapSystemFile
  \/ DoAddSubkey
  \/ DoClassName
  \/ DoLastWrittenTime
  \/ DoNumberOfSubkeys
  \/ DoNumberOfValues
  \/ DoOffset
  \/ DoGetSubkeyByIndex
  \/ DoGetSubkeyByName
  \/ DoGetSubkeyByPath
  \/ DoGetSubkeys
  \/ DoGetValueByName
  \/ DoGetValues

SpecVirtual == InitVirtual /\ [][NextVirtual]_vars

----------------------------------------------------------------------------
(* Properties of VirtualWinRegistryKey, checked under SpecVirtual *)

\* What registry.GetKeyByPath gives for the key path of virtual_key
Resolution == GetKeyByPath(self, KeyPath(virtual_key)).result

\* C7: over any sequence of reads, a virtual key calls the registry's
\* GetKeyByPath at most once, whether that call returned a key, returned
\* None or raised RuntimeError.
C7_AtMostOneQuery == queries <= 1

\* virtual_key holds a registry, has no subkeys, and the registry has no key
\* for it: it returns None or raises RuntimeError
Unresolved ==
  /\ virtual_key.registry
  /\ virtual_key.subkeys = <<>>
  /\ Resolution.kind # "key"

BackendSubkeyNames == SubkeyNames(Resolution.file, Resolution.key)

\* C9: when a subkey named n was added to a virtual key before it was
\* materialized and the key the registry has for it also has a subkey named n
\* in some letter case, the first read raises nothing, leaves the virtual key
\* without its registry, with every other subkey of the registry's key among
\* its subkeys, and with GetSubkeyByName(n) still the subkey that was added.
C9_AddedSubkeysKept ==
  \A name \in SubkeyNamesAdded :
    LET read == VirtualNumberOfSubkeys(Materialized(virtual_key, self))
    IN ( /\ virtual_key.registry
         /\ virtual_key.registry_key.kind # "key"
         /\ SubkeyByName(virtual_key, name).kind = "subkey"
         /\ Resolution.kind = "key"
         /\ \E i \in 1..Len(BackendSubkeyNames) :
              Upper(BackendSubkeyNames[i]) = Upper(name) )
       => /\ read.result.kind = "int"
          /\ ~read.vk.registry
          /\ \A i \in 1..Len(BackendSubkeyNames) :
               Upper(BackendSubkeyNames[i]) \in DOMAIN read.vk.subkeys_by_name
          /\ SubkeyByName(read.vk, name) = SubkeyByName(virtual_key, name)

\* Names given to AddSubkey
NamesAdded == {"ControlSet001", "controlset001", "CONTROLSET001", "Enum", "Select"}

\* A subkey whose name equals name in some letter case is among the subkeys
Registered(vk, name) ==
  \E i \in 1..Len(vk.subkeys) : Upper(vk.subkeys[i].name) = Upper(name)

----------------------------------------------------------------------------
(* GetRegistryFileMapping: a caller asks which prefix a file belongs under  *)
(* and maps the file there.                                                 *)

\* The files callers ask about
MappingFiles == SignatureFiles \cup {"callerSYSTEM", "callerUSRCLASS"}

StrResult(registry_file, string) ==
  [kind |-> "str", value |-> <<registry_file, string>>]

RaisedFor(registry_file, exception) ==
  [kind |-> exception, value |-> <<registry_file, "">>]

InitMapping ==
  /\ registry_files = [p \in {} |-> None]
  /\ file_prefix = [f \in Files |-> ""]
  /\ reader = NoReader
  /\ select = [n \in SelectNames |-> NoValue]
  /\ virtual_key = RootVirtualKey
  /\ queries = 0
  /\ last = NoCall
  /\ Untouched

\* win_registry.GetRegistryFileMapping(registry_file), also with None
DoGetRegistryFileMapping ==
  \E registry_file \in MappingFiles \cup {None} :
    LET mapping ==
          GetRegistryFileMapping(registry_file,
            IF registry_file = None THEN "" ELSE file_prefix[registry_file])
    IN /\ last' = [op |-> "GetRegistryFileMapping",
                   result |-> IF mapping.raised # ""
                              THEN RaisedFor(registry_file, mapping.raised)
                              ELSE StrResult(registry_file,
                                             mapping.key_path_prefix)]
       /\ UNCHANGED <<registry_files, file_prefix, reader, select,
                      virtual_key, queries, lifetime_vars, searcher_vars>>

\* The files callers map where GetRegistryFileMapping says
FilesMappedAsMapped == {"hivePROFILE", "hiveSAM", "hiveLOG", "callerSYSTEM"}

\* win_registry.MapFile(win_registry.GetRegistryFileMapping(f), f)
DoMapFileAsMapped ==
  \E registry_file \in FilesMappedAsMapped :
    LET mapping ==
          GetRegistryFileMapping(registry_file, file_prefix[registry_file])
        after == MapFile(self, mapping.key_path_prefix, registry_file)
    IN /\ mapping.raised = ""
       /\ registry_files' = after.files
       /\ file_prefix' = after.prefix
       /\ UNCHANGED <<reader, select, virtual_key, queries, last,
                      lifetime_vars, searcher_vars>>

NextMapping == DoGetRegistryFileMapping \/ DoMapFileAsMapped

SpecMapping == InitMapping /\ [][NextMapping]_vars

\* The mappings that declare a unique key path
DeclaringMappings ==
  {i \in 1..Len(REGISTRY_FILE_MAPPINGS_NT) :
     Len(REGISTRY_FILE_MAPPINGS_NT[i].unique_key_paths) > 0}

\* The mappings among `mappings` all of whose unique key paths are keys of
\* the file
MatchingMappings(registry_file, mappings) ==
  {i \in mappings :
     \A j \in 1..Len(REGISTRY_FILE_MAPPINGS_NT[i].unique_key_paths) :
       Upper(REGISTRY_FILE_MAPPINGS_NT[i].unique_key_paths[j])
         \in FileKeysUpper[registry_file]}

\* GetRegistryFileMapping of every file is determined by the set M of the
\* mappings among `mappings` that match the file
MappingDetermined(mappings) ==
  \A registry_file \in MappingFiles \cup {None} :
    LET mapping ==
          GetRegistryFileMapping(registry_file,
            IF registry_file = None THEN "" ELSE file_prefix[registry_file])
        M == IF registry_file = None THEN {}
             ELSE MatchingMappings(registry_file, mappings)
        prefixes == {REGISTRY_FILE_MAPPINGS_NT[i].key_path_prefix : i \in M}
    IN IF M = {} THEN mapping = Prefix("")
       ELSE IF Cardinality(M) = 1
       THEN \E i \in M :
              mapping = Prefix(REGISTRY_FILE_MAPPINGS_NT[i].key_path_prefix)
       ELSE IF prefixes = {"HKEY_CURRENT_USER",
                           "HKEY_CURRENT_USER\\Software\\Classes"}
       THEN mapping = Prefix("HKEY_CURRENT_USER")
       ELSE mapping = MappingError

\* C13 as stated: GetRegistryFileMapping(backend) is determined by the set M
\* of the hive templates all of whose declared unique key paths exist in the
\* backend (a template that declares none is in M for every backend): ""
\* for None or empty M, the prefix of the one template of M,
\* HKEY_CURRENT_USER when the prefixes of M are exactly HKEY_CURRENT_USER and
\* HKEY_CURRENT_USER\Software\Classes, RuntimeError for every other M.
C13_MappingDetermined ==
  MappingDetermined(1..Len(REGISTRY_FILE_MAPPINGS_NT))

\* C13, amended: the same, with M taken among the templates that declare at
\* least one unique key path.
C13_MappingDeterminedByDeclared == MappingDetermined(DeclaringMappings)

C13_Witness ==
  /\ last = [op |-> "GetRegistryFileMapping",
             result |-> RaisedFor("hiveSYSTEMSECURITY", "RuntimeError")]
  /\ "HKEY_CURRENT_USER" \in DOMAIN registry_files
  /\ registry_files["HKEY_CURRENT_USER"] = "hivePROFILE"
  /\ file_prefix["hiveSYSTEMSECURITY"] = ""

----------------------------------------------------------------------------
(* The lifetime of a WinRegistry: files are mapped and opened on demand,    *)
(* the root key is asked for, and the registry is deleted.                  *)

\* The MapFile calls: each hive under its prefix, the UsrClass hive also
\* under the prefix of NTUSER.DAT
LifetimeMapCalls ==
  {<<"HKEY_CURRENT_USER", "callerNTUSER">>,
   <<"HKEY_CURRENT_USER\\Software\\Classes", "callerUSRCLASS">>,
   <<"HKEY_CURRENT_USER", "callerUSRCLASS">>,
   <<"HKEY_LOCAL_MACHINE\\System", "callerSYSTEM">>}

\* Key paths that make the registry open a file
LifetimeKeyPaths ==
  {"HKEY_CURRENT_USER\\Environment",
   "HKEY_CURRENT_USER\\Software\\Classes\\CLSID",
   "HKLM\\System\\Select"}

\* GetRootKey is called at most this often
MaxRootKeys == 2

InitLifetime ==
  /\ registry_files = [p \in {} |-> None]
  /\ file_prefix = [f \in Files |-> ""]
  /\ reader \in {NoReader, MappedReader}
  /\ select = [n \in SelectNames |-> NoValue]
  /\ virtual_key = RootVirtualKey
  /\ queries = 0
  /\ last = NoCall
  /\ Untouched

\* win_registry.MapFile(key_path_prefix, registry_file)
LifetimeMapFile ==
  \E call \in LifetimeMapCalls :
    LET after == MapFile(self, call[1], call[2])
    IN /\ ~deleted
       /\ registry_files' = after.files
       /\ file_prefix' = after.prefix
       /\ UNCHANGED <<reader, select, virtual_key, queries, last,
                      lifetime_vars, searcher_vars>>

\* win_registry.GetKeyByPath(key_path)
LifetimeGetKeyByPath ==
  \E key_path \in LifetimeKeyPaths :
    LET got == GetKeyByPath(self, key_path)
    IN /\ ~deleted
       /\ registry_files' = got.self.files
       /\ file_prefix' = got.self.prefix
       /\ UNCHANGED <<reader, select, virtual_key, queries, last,
                      lifetime_vars, searcher_vars>>

\* win_registry.GetRootKey()
DoGetRootKey ==
  /\ ~deleted
  /\ Len(root_keys) < MaxRootKeys
  /\ root_keys' = Append(root_keys, GetRootKey(self, Len(root_keys) + 1))
  /\ UNCHANGED <<registry_files, file_prefix, reader, select, virtual_key,
                 queries, last, close_calls, deleted, searcher_vars>>

\* del win_registry
DoDel ==
  /\ ~deleted
  /\ deleted' = TRUE
  /\ close_calls' =
       [f \in Files |-> close_calls[f] + CloseCalls(self, f)]
  /\ registry_files' = Del(self).files
  /\ UNCHANGED <<file_prefix, reader, select, virtual_key, queries, last,
                 root_keys, searcher_vars>>

NextLifetime ==
  LifetimeMapFile \/ LifetimeGetKeyByPath \/ DoGetRootKey \/ DoDel

SpecLifetime == InitLifetime /\ [][NextLifetime]_vars

\* Names of the subkeys of a root key
RootSubkeyNames(root_key) ==
  {root_key.subkeys[i].name : i \in 1..Len(root_key.subkeys)}

\* C11: GetRootKey returns a root whose immediate subkeys are exactly the
\* seven root keys, each once, and whose HKEY_LOCAL_MACHINE subkey has one
\* subkey for each of SAM, Security, Software and System, whatever files are
\* mapped.
C11_RootKeySubkeys ==
  LET root_key == GetRootKey(self, 1)
  IN /\ root_key.kind = "key"
     /\ Len(root_key.subkeys) = 7
     /\ RootSubkeyNames(root_key) = ROOT_KEYS
     /\ \A i \in 1..Len(root_key.subkeys) :
          root_key.subkeys[i].name = "HKEY_LOCAL_MACHINE" =>
            root_key.subkeys[i].subkeys =
              {"SAM", "Security", "Software", "System"}

\* C12: any two GetRootKey calls on a registry, with any other operations
\* in between, return the same root key.
C12_RootKeyCached ==
  \A i, j \in 1..Len(root_keys) :
    root_keys[i].kind = "key" /\ root_keys[i] = root_keys[j]

\* The registry took ownership of f: MapFile set its key path prefix (no
\* file is mapped under the empty prefix here)
Owned(f) == file_prefix[f] # ""

\* C14: after any MapFile calls and on-demand opens, the same file under two
\* prefixes and a prefix mapped again to another file included, deleting the
\* registry calls Close exactly once on every file the registry took
\* ownership of.
C14_CloseExactlyOnce ==
  deleted =>
    \A f \in Files : close_calls[f] = IF Owned(f) THEN 1 ELSE 0

\* C15: after any MapFile and GetKeyByPath calls every key of the table is
\* an upper-cased prefix that maps to one file, and the key path prefix of
\* that file, upper-cased, is the key.
C15_FilePrefixIsTableKey ==
  ~deleted =>
    \A key_path_prefix_upper \in DOMAIN registry_files :
      /\ key_path_prefix_upper = Upper(key_path_prefix_upper)
      /\ registry_files[key_path_prefix_upper] \in Files
      /\ Upper(file_prefix[registry_files[key_path_prefix_upper]])
           = key_path_prefix_upper

----------------------------------------------------------------------------
(* dfwinreg/glob2regex.py and the regular expressions of module re.        *)
(* Patterns are handled over literals, '.', '*' after an atom, a backslash  *)
(* before a character that is no letter or digit, and character sets; the   *)
(* patterns of the model hold no other construct and no ')', so that a '('  *)
(* is never closed.                                                         *)

\* index of the first c in s at or after i, 0 when there is none
RECURSIVE FindCharFrom(_, _, _)
FindCharFrom(s, c, i) ==
  IF i > Len(s) THEN 0
  ELSE IF CharAt(s, i) = c THEN i
  ELSE FindCharFrom(s, c, i + 1)

\* _GLOB_GROUP_RE.findall(glob_pattern): runs without '[', sets '[...]' with
\* at least one character, and a stand-alone '['
RECURSIVE GlobGroups(_)
GlobGroups(glob_pattern) ==
  IF glob_pattern = "" THEN <<>>
  ELSE IF CharAt(glob_pattern, 1) # "["
  THEN LET next == FindCharFrom(glob_pattern, "[", 1)
           n == IF next = 0 THEN Len(glob_pattern) ELSE next - 1
       IN <<SubSeq(glob_pattern, 1, n)>>
            \o GlobGroups(SliceFrom(glob_pattern, n))
  ELSE LET close == FindCharFrom(glob_pattern, "]", 2)
           n == IF close >= 3 THEN close ELSE 1
       IN <<SubSeq(glob_pattern, 1, n)>>
            \o GlobGroups(SliceFrom(glob_pattern, n))

\* The characters _ESCAPE_RE escapes
EscapedCharacters == {".", "^", "$", "+", "{", "}", "|", "(", ")", "]"}

\* GlobCharacter without the escape of _ESCAPE_RE
GlobCharacterUnescaped(c) ==
  IF c = "\\" THEN "\\\\"
  ELSE IF c = "*" THEN ".*"
  ELSE IF c = "?" THEN "."
  ELSE c

\* A character of a group outside a set: '\' doubled, special characters
\* escaped, '*' to '.*' and '?' to '.'
GlobCharacter(c) ==
  IF c = "\\" THEN "\\\\"
  ELSE IF c \in EscapedCharacters THEN "\\" \o c
  ELSE IF c = "*" THEN ".*"
  ELSE IF c = "?" THEN "."
  ELSE c

RECURSIVE GlobCharacters(_)
GlobCharacters(group) ==
  IF group = "" THEN ""
  ELSE GlobCharacter(CharAt(group, 1)) \o GlobCharacters(SliceFrom(group, 1))

\* str.replace('\\', '\\\\')
RECURSIVE DoubleBackslashes(_)
DoubleBackslashes(group) ==
  IF group = "" THEN ""
  ELSE (IF CharAt(group, 1) = "\\" THEN "\\\\" ELSE CharAt(group, 1))
         \o DoubleBackslashes(SliceFrom(group, 1))

\* One group of a glob as a regular expression
GlobGroup2Regex(group) ==
  IF CharAt(group, 1) # "[" THEN GlobCharacters(group)
  ELSE IF group = "[" THEN "\\["
  ELSE IF CharAt(group, 2) = "!"
  THEN "[^" \o DoubleBackslashes(SliceFrom(group, 2))
  ELSE DoubleBackslashes(group)

RECURSIVE JoinGroups(_)
JoinGroups(groups) ==
  IF Len(groups) = 0 THEN ""
  ELSE GlobGroup2Regex(groups[1]) \o JoinGroups(Tail(groups))

\* glob2regex.Glob2Regex
Glob2Regex(glob_pattern) ==
  IF glob_pattern = "" THEN [raised |-> "ValueError", regex |-> ""]
  ELSE [raised |-> "", regex |-> JoinGroups(GlobGroups(glob_pattern))]

\* key_path_regex.replace('\\/', '/')
RECURSIVE UnescapeSlashes(_)
UnescapeSlashes(key_path_regex) ==
  IF key_path_regex = "" THEN ""
  ELSE IF StartsWith(key_path_regex, "\\/")
  THEN "/" \o UnescapeSlashes(SliceFrom(key_path_regex, 2))
  ELSE CharAt(key_path_regex, 1)
         \o UnescapeSlashes(SliceFrom(key_path_regex, 1))

\* The atoms of f'^{pattern:s}$': a literal character, '.', or a set of
\* characters, each repeated or not. error says that re.compile raises
\* re.error: a set or a group that is not closed, a ')' that closes nothing,
\* or a '*' with nothing to repeat. A backslash at the end of pattern escapes
\* the '$' after it: the pattern then ends with a literal '$' and is not
\* anchored at its end.
Atom(kind, chars, negated) ==
  [kind |-> kind, chars |-> chars, negated |-> negated, star |-> FALSE]

Parsed(atoms) == [error |-> FALSE, atoms |-> atoms]

ParseError == [error |-> TRUE, atoms |-> <<>>]

\* What follows an atom that took n characters of pattern
RECURSIVE ParseAtoms(_)
ParseRest(pattern, n, atom) ==
  LET starred == Len(pattern) > n /\ CharAt(pattern, n + 1) = "*"
      rest == ParseAtoms(SliceFrom(pattern, IF starred THEN n + 1 ELSE n))
  IN IF rest.error THEN ParseError
     ELSE Parsed(<<[atom EXCEPT !.star = starred]>> \o rest.atoms)

ParseAtoms(pattern) ==
  IF pattern = "" THEN Parsed(<<>>)
  ELSE LET c == CharAt(pattern, 1)
       IN IF c = "\\"
          THEN IF Len(pattern) = 1
               THEN Parsed(<<Atom("char", "$", FALSE),
                             [Atom("any", "", FALSE) EXCEPT !.star = TRUE]>>)
               ELSE ParseRest(pattern, 2,
                              Atom("char", CharAt(pattern, 2), FALSE))
          ELSE IF c = "." THEN ParseRest(pattern, 1, Atom("any", "", FALSE))
          ELSE IF c = "["
          THEN LET negated == Len(pattern) > 1 /\ CharAt(pattern, 2) = "^"
                   first == IF negated THEN 3 ELSE 2
                   close == FindCharFrom(pattern, "]", first + 1)
               IN IF close = 0 THEN ParseError
                  ELSE ParseRest(pattern, close,
                                 Atom("set", SubSeq(pattern, first, close - 1),
                                      negated))
          ELSE IF c \in {"(", ")", "*"} THEN ParseError
          ELSE ParseRest(pattern, 1, Atom("char", c, FALSE))

\* A character matches an atom, under re.DOTALL and re.IGNORECASE
AtomMatches(atom, c) ==
  IF atom.kind = "any" THEN TRUE
  ELSE IF atom.kind = "char" THEN UpperChar(atom.chars) = UpperChar(c)
  ELSE atom.negated #
         (\E i \in 1..Len(atom.chars) :
            UpperChar(CharAt(atom.chars, i)) = UpperChar(c))

\* The atoms match all of string
RECURSIVE AtomsMatch(_, _)
AtomsMatch(atoms, string) ==
  IF Len(atoms) = 0 THEN string = ""
  ELSE IF atoms[1].star
  THEN \/ AtomsMatch(Tail(atoms), string)
       \/ /\ string # ""
          /\ AtomMatches(atoms[1], CharAt(string, 1))
          /\ AtomsMatch(atoms, SliceFrom(string, 1))
  ELSE /\ string # ""
       /\ AtomMatches(atoms[1], CharAt(string, 1))
       /\ AtomsMatch(Tail(atoms), SliceFrom(string, 1))

\* re.compile(f'^{segment_name:s}$', flags=flags) raises re.error
CompileRaises(segment_name) == ParseAtoms(segment_name).error

\* re.compile(f'^{segment_name:s}$', flags=flags).match(key_name)
RegexMatch(segment_name, key_name) ==
  AtomsMatch(ParseAtoms(segment_name).atoms, key_name)

----------------------------------------------------------------------------
(* dfwinreg/registry_searcher.py: FindSpec                                  *)

\* An argument of FindSpec: None, a string, a list of strings, or an object
\* of another type
NoneArgument == [type |-> "NoneType", str |-> "", list |-> <<>>]

StrArgument(str) == [type |-> "str", str |-> str, list |-> <<>>]

ListArgument(list) == [type |-> "list", str |-> "", list |-> list]

IntArgument == [type |-> "int", str |-> "", list |-> <<>>]

\* `if argument`: None, '' and [] are falsy, the int of the model is not 0
Truthy(argument) ==
  \/ argument.type = "str" /\ argument.str # ""
  \/ argument.type = "list" /\ Len(argument.list) > 0
  \/ argument.type = "int"

\* A key path segment a FindSpec holds: a string, or the pattern compiled
\* from one
Segment(value) == [type |-> "str", value |-> value]

Pattern(value) == [type |-> "Pattern", value |-> value]

Segments(list) == [i \in 1..Len(list) |-> Segment(list[i])]

\* index of the first separator in s at or after i, 0 when there is none
RECURSIVE FindFrom(_, _, _)
FindFrom(s, separator, i) ==
  IF i + Len(separator) - 1 > Len(s) THEN 0
  ELSE IF SubSeq(s, i, i + Len(separator) - 1) = separator THEN i
  ELSE FindFrom(s, separator, i + 1)

\* s.split(separator)
RECURSIVE StrSplitBy(_, _)
StrSplitBy(s, separator) ==
  LET i == FindFrom(s, separator, 1) IN
  IF i = 0 THEN <<s>>
  ELSE <<SubSeq(s, 1, i - 1)>>
         \o StrSplitBy(SliceFrom(s, i + Len(separator) - 1), separator)

\* The keyword key_paths.SplitKeyPath declares
SplitKeyPathKeywords == {"path_seperator"}

\* key_paths.SplitKeyPath(key_path, keyword=separator)
SplitKeyPathWith(key_path, keyword, separator) ==
  IF keyword \notin SplitKeyPathKeywords
  THEN [raised |-> "TypeError", list |-> <<>>]
  ELSE [raised |-> "", list |-> FilterEmpty(StrSplitBy(key_path, separator))]

\* The fields of a FindSpec
FindSpecOf(is_regex, key_path_segments) ==
  [is_regex |-> is_regex, has_key_path_segments |-> TRUE,
   key_path_segments |-> key_path_segments,
   number_of_key_path_segments |-> Len(key_path_segments)]

Constructed(self_) == [raised |-> "", self |-> self_]

NotConstructed(exception) == [raised |-> exception, self |-> NoFindSpec]

\* FindSpec.__init__ of the regular expression form, also taken by a glob
\* given as a string once it is converted
SplitRegex(key_path_regex) ==
  LET split == SplitKeyPathWith(key_path_regex, "path_separator", "\\\\")
  IN IF split.raised # "" THEN NotConstructed(split.raised)
     ELSE Constructed(FindSpecOf(TRUE, Segments(split.list)))

\* FindSpec.__init__ with a list of globs
RECURSIVE GlobSegments(_)
GlobSegments(key_path_glob) ==
  IF Len(key_path_glob) = 0 THEN Constructed(FindSpecOf(TRUE, <<>>))
  ELSE LET converted == Glob2Regex(key_path_glob[1])
           rest == GlobSegments(Tail(key_path_glob))
       IN IF converted.raised # "" THEN NotConstructed(converted.raised)
          ELSE IF rest.raised # "" THEN rest
          ELSE Constructed(FindSpecOf(TRUE,
                 <<Segment(UnescapeSlashes(converted.regex))>>
                   \o rest.self.key_path_segments))

\* FindSpec.__init__
FindSpecInit(key_path, key_path_glob, key_path_regex) ==
  LET key_path_arguments ==
        {i \in 1..3 : Truthy(<<key_path, key_path_glob, key_path_regex>>[i])}
  IN IF Cardinality(key_path_arguments) > 1 THEN NotConstructed("ValueError")
     ELSE IF key_path.type # "NoneType"
     THEN IF key_path.type = "str"
          THEN Constructed(FindSpecOf(FALSE,
                 Segments(SplitKeyPath(key_path.str))))
          ELSE IF key_path.type = "list"
          THEN Constructed(FindSpecOf(FALSE, Segments(key_path.list)))
          ELSE NotConstructed("TypeError")
     ELSE IF key_path_glob.type # "NoneType"
     THEN IF key_path_glob.type = "str"
          THEN LET converted == Glob2Regex(key_path_glob.str)
               IN IF converted.raised # ""
                  THEN NotConstructed(converted.raised)
                  ELSE SplitRegex(UnescapeSlashes(converted.regex))
          ELSE IF key_path_glob.type = "list"
          THEN GlobSegments(key_path_glob.list)
          ELSE NotConstructed("TypeError")
     ELSE IF key_path_regex.type # "NoneType"
     THEN IF key_path_regex.type = "str"
          THEN SplitRegex(key_path_regex.str)
          ELSE IF key_path_regex.type = "list"
          THEN Constructed(FindSpecOf(TRUE, Segments(key_path_regex.list)))
          ELSE NotConstructed("TypeError")
     ELSE Constructed(NoFindSpec)

\* What a method of a FindSpec leaves and returns: the FindSpec with the
\* segments it compiled or upper-cased, and the result
SpecResult(self_, result) == [raised |-> "", self |-> self_, result |-> result]

SpecRaised(self_, exception) ==
  [raised |-> exception, self |-> self_, result |-> FALSE]

\* self._key_path_segments[index] = segment_name, index counted from 0
WithSegment(self_, index, segment_name) ==
  [self_ EXCEPT !.key_path_segments[index + 1] = segment_name]

\* The comparison both _CompareWithKeyPathSegment and _CheckKeyPath make of a
\* name with the segment at index: the segment is compiled or upper-cased and
\* stored, a pattern that does not compile is left as it is
CompareSegment(self_, name, index) ==
  LET segment_name == self_.key_path_segments[index + 1]
  IN IF self_.is_regex
     THEN IF segment_name.type = "str" /\ CompileRaises(segment_name.value)
          THEN SpecResult(self_, FALSE)
          ELSE SpecResult(
                 WithSegment(self_, index, Pattern(segment_name.value)),
                 RegexMatch(segment_name.value, name))
     ELSE SpecResult(
            WithSegment(self_, index, Segment(Upper(segment_name.value))),
            Upper(segment_name.value) = Upper(name))

\* registry_key.path.split('\\')[-1]
KeyName(registry_key) ==
  LET key_path_segments == StrSplit(registry_key)
  IN key_path_segments[Len(key_path_segments)]

\* FindSpec._CheckKeyPath; a registry key is given by its path
CheckKeyPath(self_, registry_key, search_depth) ==
  IF ~self_.has_key_path_segments THEN SpecResult(self_, FALSE)
  ELSE IF \/ search_depth < 0
          \/ search_depth > self_.number_of_key_path_segments
  THEN SpecResult(self_, FALSE)
  ELSE IF search_depth = 0 THEN SpecResult(self_, TRUE)
  ELSE CompareSegment(self_, KeyName(registry_key), search_depth - 1)

\* FindSpec._CompareWithKeyPathSegment
CompareWithKeyPathSegment(self_, key_path_segment, segment_index) ==
  IF \/ ~self_.has_key_path_segments
     \/ segment_index < 0
     \/ segment_index > self_.number_of_key_path_segments
  THEN SpecResult(self_, FALSE)
  ELSE IF segment_index >= Len(self_.key_path_segments)
  THEN SpecRaised(self_, "IndexError")
  ELSE CompareSegment(self_, key_path_segment, segment_index)

\* FindSpec.AtLastKeyPathSegment
AtLastKeyPathSegment(self_, segment_index) ==
  /\ self_.has_key_path_segments
  /\ segment_index + 1 >= self_.number_of_key_path_segments

\* FindSpec.CompareKeyPath: the loop from segment_index on
RECURSIVE CompareKeyPathFrom(_, _, _)
CompareKeyPathFrom(self_, key_path_segments, segment_index) ==
  IF segment_index >= self_.number_of_key_path_segments
  THEN SpecResult(self_, TRUE)
  ELSE IF segment_index >= Len(key_path_segments)
  THEN SpecResult(self_, FALSE)
  ELSE LET compared ==
             CompareWithKeyPathSegment(
               self_, key_path_segments[segment_index + 1], segment_index)
       IN IF compared.raised # "" \/ ~compared.result THEN compared
          ELSE CompareKeyPathFrom(
                 compared.self, key_path_segments, segment_index + 1)

\* FindSpec.CompareKeyPath
CompareKeyPath(self_, registry_key) ==
  IF ~self_.has_key_path_segments THEN SpecResult(self_, FALSE)
  ELSE CompareKeyPathFrom(self_, StrSplit(registry_key), 0)

\* FindSpec.CompareNameWithKeyPathSegment
CompareNameWithKeyPathSegment(self_, registry_key, segment_index) ==
  CompareWithKeyPathSegment(self_, KeyName(registry_key), segment_index)

\* FindSpec.HasKeyPath
HasKeyPath(self_) ==
  self_.has_key_path_segments /\ Len(self_.key_path_segments) > 0

\* FindSpec.IsLastKeyPathSegment
IsLastKeyPathSegment(self_, segment_index) ==
  /\ self_.has_key_path_segments
  /\ segment_index + 1 = self_.number_of_key_path_segments

\* True, False and None as an element of a tuple
PyBool(b) == IF b THEN "True" ELSE "False"

\* FindSpec.Matches: the result is the tuple it returns
Matches(self_, registry_key, search_depth) ==
  IF ~self_.has_key_path_segments
  THEN SpecResult(self_, <<"True", "None">>)
  ELSE LET key_path_match == CheckKeyPath(self_, registry_key, search_depth)
       IN IF ~key_path_match.result
          THEN SpecResult(key_path_match.self, <<"False", "False">>)
          ELSE IF search_depth # self_.number_of_key_path_segments
          THEN SpecResult(key_path_match.self, <<"False", "True">>)
          ELSE SpecResult(key_path_match.self, <<"True", "True">>)

----------------------------------------------------------------------------
(* dfwinreg/registry_searcher.py: WinRegistrySearcher. A registry key is    *)
(* given by its path; the find specifications are objects, given by their   *)
(* index in objects, so that one object can be in a list twice.             *)

\* The paths of the keys some registry holds, a key before its subkeys
SearchKeys ==
  <<"HKEY_LOCAL_MACHINE",
    "HKEY_LOCAL_MACHINE\\System",
    "HKEY_LOCAL_MACHINE\\System\\ControlSet001",
    "HKEY_LOCAL_MACHINE\\System\\ControlSet001\\Control",
    "HKEY_LOCAL_MACHINE\\System\\Select",
    "HKEY_CURRENT_USER",
    "HKEY_CURRENT_USER\\Software",
    "HKEY_CURRENT_USER\\Software\\ControlSet001">>

\* sub_registry_key is a subkey of registry_key
IsSubkeyOf(sub_registry_key, registry_key) ==
  /\ StartsWith(sub_registry_key, registry_key \o KEY_PATH_SEPARATOR)
  /\ FindSeparator(SliceFrom(sub_registry_key, Len(registry_key) + 1)) = 0

\* registry_key.GetSubkeys()
GetSubkeysOf(registry_key) ==
  SelectSeq(SearchKeys, LAMBDA key : IsSubkeyOf(key, registry_key))

\* What a run of the generator has done so far: the exception that ended
\* it, the find specifications, the paths yielded, and sub_find_specs
Found(raised, objects, yielded, sub_find_specs) ==
  [raised |-> raised, objects |-> objects, yielded |-> yielded,
   sub_find_specs |-> sub_find_specs]

\* WinRegistrySearcher._FindInKey: the body of the loop over find_specs,
\* from the yield on
FindInKeyMatched(found, registry_key, find_spec_index, segment_index, matched) ==
  LET self_ == found.objects[find_spec_index]
      has_key_path == HasKeyPath(self_)
      is_last_key_path_segment == IsLastKeyPathSegment(self_, segment_index)
      at_last_key_path_segment == AtLastKeyPathSegment(self_, segment_index)
  IN Found("",
       [found.objects EXCEPT ![find_spec_index] = matched.self],
       IF ~has_key_path \/ (matched.result /\ is_last_key_path_segment)
       THEN Append(found.yielded, registry_key)
       ELSE found.yielded,
       IF (~has_key_path \/ matched.result) /\ ~at_last_key_path_segment
       THEN Append(found.sub_find_specs, find_spec_index)
       ELSE found.sub_find_specs)

\* WinRegistrySearcher._FindInKey: the body of the loop over find_specs,
\* after the quick check
FindInKeyCompared(found, registry_key, find_spec_index, segment_index, compared) ==
  IF compared.raised # ""
  THEN Found(compared.raised, found.objects, found.yielded, <<>>)
  ELSE IF /\ compared.result
          /\ IsLastKeyPathSegment(found.objects[find_spec_index], segment_index)
  THEN FindInKeyMatched(found, registry_key, find_spec_index, segment_index,
                        CompareKeyPath(compared.self, registry_key))
  ELSE FindInKeyMatched(found, registry_key, find_spec_index, segment_index,
                        compared)

\* WinRegistrySearcher._FindInKey: the loop over find_specs from the i-th on
RECURSIVE FindInKeySpecs(_, _, _, _, _)
FindInKeySpecs(found, registry_key, find_specs, segment_index, i) ==
  IF found.raised # "" \/ i > Len(find_specs) THEN found
  ELSE FindInKeySpecs(
         FindInKeyCompared(found, registry_key, find_specs[i], segment_index,
           CompareNameWithKeyPathSegment(
             found.objects[find_specs[i]], registry_key, segment_index)),
         registry_key, find_specs, segment_index, i + 1)

\* WinRegistrySearcher._FindInKey, and its loop over the subkeys
RECURSIVE FindInKey(_, _, _, _)
RECURSIVE FindInKeys(_, _, _, _, _)
FindInSubkeys(found, registry_key, segment_index) ==
  IF found.raised # "" \/ Len(found.sub_find_specs) = 0 THEN found
  ELSE FindInKeys(found, GetSubkeysOf(registry_key), found.sub_find_specs,
                  segment_index + 1, 1)

FindInKey(found, registry_key, find_specs, segment_index) ==
  FindInSubkeys(
    FindInKeySpecs(Found("", found.objects, found.yielded, <<>>),
                   registry_key, find_specs, segment_index, 1),
    registry_key, segment_index)

FindInKeys(found, registry_keys, find_specs, segment_index, i) ==
  IF found.raised # "" \/ i > Len(registry_keys) THEN found
  ELSE FindInKeys(
         FindInKey(found, registry_keys[i], find_specs, segment_index),
         registry_keys, find_specs, segment_index, i + 1)

\* The names of the subkeys of a root key, which are their paths
RootSubkeys(root_key) ==
  [i \in 1..Len(root_key.subkeys) |-> root_key.subkeys[i].name]

\* WinRegistrySearcher.Find, run to its end: `if not find_specs` takes a
\* new FindSpec(), the last of objects
FindWith(registry, objects, find_specs) ==
  LET root_registry_key == GetRootKey(registry, 1)
  IN IF root_registry_key.kind # "key"
     THEN Found(root_registry_key.kind, objects, <<>>, <<>>)
     ELSE FindInKeys(Found("", objects, <<>>, <<>>),
                     RootSubkeys(root_registry_key), find_specs, 0, 1)

Find(registry, objects, find_specs) ==
  IF Len(find_specs) = 0
  THEN FindWith(registry, Append(objects, NoFindSpec), <<Len(objects) + 1>>)
  ELSE FindWith(registry, objects, find_specs)

----------------------------------------------------------------------------
(* A FindSpec is built, asked, and handed to a searcher.                    *)

KeyPathArguments ==
  {NoneArgument,
   StrArgument("HKEY_LOCAL_MACHINE\\System\\ControlSet001"),
   StrArgument(""),
   ListArgument(<<"HKEY_CURRENT_USER", "Software">>),
   IntArgument}

KeyPathGlobArguments ==
  {NoneArgument,
   StrArgument("HKEY_LOCAL_MACHINE\\System\\*"),
   ListArgument(<<"HKEY_LOCAL_MACHINE", "S*">>)}

KeyPathRegexArguments ==
  {NoneArgument,
   StrArgument("HKEY_LOCAL_MACHINE\\\\System"),
   ListArgument(<<"HKEY_LOCAL_MACHINE", "System", "Control.*">>),
   ListArgument(<<"HKEY_LOCAL_MACHINE", "S(stem">>),
   ListArgument(<<>>)}

\* Names compared with a segment
SegmentsCompared == {"System", "ControlSet001"}

\* segment_index and search_depth range over -1..MaxSegmentIndex
MaxSegmentIndex == 3

\* Keys compared with a FindSpec
KeysCompared ==
  {"HKEY_LOCAL_MACHINE\\System",
   "HKEY_LOCAL_MACHINE\\System\\ControlSet001",
   "HKEY_CURRENT_USER\\Software\\ControlSet001"}

\* Keys a search starts from
KeysSearched == {"HKEY_LOCAL_MACHINE", "HKEY_CURRENT_USER"}

\* Lists of find specifications: 1 is find_spec, 2 is a FindSpec()
FindSpecLists == {<<1>>, <<1, 1>>, <<1, 2>>}

Objects == <<find_spec, NoFindSpec>>

\* What a call returned: the result with its type, or what it raised
Outcome(r, type, value) ==
  [kind |-> IF r.raised # "" THEN r.raised ELSE type, value |-> value]

InitSearcher ==
  /\ registry_files = [p \in {} |-> None]
  /\ file_prefix = [f \in Files |-> ""]
  /\ reader = NoReader
  /\ select = [n \in SelectNames |-> NoValue]
  /\ virtual_key = RootVirtualKey
  /\ queries = 0
  /\ last = NoCall
  /\ Untouched

SearcherUnchanged ==
  UNCHANGED <<registry_files, file_prefix, reader, select, virtual_key,
              queries, lifetime_vars>>

\* find_spec = FindSpec(key_path=..., key_path_glob=..., key_path_regex=...)
DoFindSpec ==
  \E key_path \in KeyPathArguments, key_path_glob \in KeyPathGlobArguments,
     key_path_regex \in KeyPathRegexArguments :
    LET r == FindSpecInit(key_path, key_path_glob, key_path_regex)
    IN /\ find_spec' = IF r.raised # "" THEN find_spec ELSE r.self
       /\ last' = [op |-> "FindSpec",
                   result |-> Outcome(r, "FindSpec",
                     <<key_path, key_path_glob, key_path_regex>>)]
       /\ SearcherUnchanged

\* find_spec._CompareWithKeyPathSegment(key_path_segment, segment_index)
DoCompareWithKeyPathSegment ==
  \E key_path_segment \in SegmentsCompared,
     segment_index \in -1..MaxSegmentIndex :
    LET r == CompareWithKeyPathSegment(
               find_spec, key_path_segment, segment_index)
    IN /\ find_spec' = r.self
       /\ last' = [op |-> "_CompareWithKeyPathSegment",
                   result |-> Outcome(r, "bool",
                     <<key_path_segment, segment_index, r.result>>)]
       /\ SearcherUnchanged

\* find_spec._CheckKeyPath(registry_key, search_depth)
DoCheckKeyPath ==
  \E registry_key \in KeysCompared, search_depth \in -1..MaxSegmentIndex :
    LET r == CheckKeyPath(find_spec, registry_key, search_depth)
    IN /\ find_spec' = r.self
       /\ last' = [op |-> "_CheckKeyPath",
                   result |-> Outcome(r, "bool",
                     <<registry_key, search_depth, r.result>>)]
       /\ SearcherUnchanged

\* find_spec.CompareKeyPath(registry_key)
DoCompareKeyPath ==
  \E registry_key \in KeysCompared :
    LET r == CompareKeyPath(find_spec, registry_key)
    IN /\ find_spec' = r.self
       /\ last' = [op |-> "CompareKeyPath",
                   result |-> Outcome(r, "bool", <<registry_key, r.result>>)]
       /\ SearcherUnchanged

\* find_spec.Matches(registry_key, search_depth)
DoMatches ==
  \E registry_key \in KeysCompared, search_depth \in -1..MaxSegmentIndex :
    LET r == Matches(find_spec, registry_key, search_depth)
    IN /\ find_spec' = r.self
       /\ last' = [op |-> "Matches",
                   result |-> Outcome(r, "tuple",
                     <<registry_key, search_depth, r.result>>)]
       /\ SearcherUnchanged

\* list(searcher._FindInKey(registry_key, find_specs, 0))
DoFindInKey ==
  \E registry_key \in KeysSearched, find_specs \in FindSpecLists :
    LET r == FindInKey(Found("", Objects, <<>>, <<>>),
                       registry_key, find_specs, 0)
    IN /\ find_spec' = r.objects[1]
       /\ last' = [op |-> "_FindInKey",
                   result |-> Outcome(r, "list",
                     <<registry_key, find_specs, r.yielded>>)]
       /\ SearcherUnchanged

\* list(searcher.Find(find_specs=find_specs)), and list(searcher.Find())
DoFind ==
  \E find_specs \in FindSpecLists \cup {<<>>} :
    LET r == Find(self, Objects, find_specs)
    IN /\ find_spec' = r.objects[1]
       /\ last' = [op |-> "Find",
                   result |-> Outcome(r, "list", <<find_specs, r.yielded>>)]
       /\ SearcherUnchanged

NextSearcher ==
  \/ DoFindSpec
  \/ DoCompareWithKeyPathSegment
  \/ DoCheckKeyPath
  \/ DoCompareKeyPath
  \/ DoMatches
  \/ DoFindInKey
  \/ DoFind

SpecSearcher == InitSearcher /\ [][NextSearcher]_vars

\* The set of the elements of a sequence
Range(sequence) == {sequence[i] : i \in 1..Len(sequence)}

\* name satisfies the i-th segment of a find specification
SegmentSatisfied(self_, i, name) ==
  IF self_.is_regex
  THEN /\ ~CompileRaises(self_.key_path_segments[i].value)
       /\ RegexMatch(self_.key_path_segments[i].value, name)
  ELSE Upper(self_.key_path_segments[i].value) = Upper(name)

\* The first n segments of the path of registry_key satisfy the first n
\* segments of a find specification
PathSatisfied(self_, registry_key, n) ==
  LET key_path_segments == StrSplit(registry_key)
  IN /\ n <= Len(key_path_segments)
     /\ n <= Len(self_.key_path_segments)
     /\ \A i \in 1..n : SegmentSatisfied(self_, i, key_path_segments[i])

\* The keys N levels below the root whose ancestors' names satisfy the N
\* segments of a find specification
KeysSatisfying(self_) ==
  {registry_key \in Range(SearchKeys) :
     /\ Len(StrSplit(registry_key)) = self_.number_of_key_path_segments
     /\ PathSatisfied(self_, registry_key, self_.number_of_key_path_segments)}

\* C16: for a FindSpec with N >= 1 segments Find yields the path of a key
\* if and only if the key lies N levels below the root and the name of its
\* ancestor at every level i in 1..N satisfies segment i; no key at another
\* level is yielded.
C16_FindDepthDiscipline ==
  (/\ last.op = "Find"
   /\ last.result.value[1] = <<1>>
   /\ find_spec.number_of_key_path_segments >= 1)
  => /\ last.result.kind = "list"
     /\ Range(last.result.value[2]) = KeysSatisfying(find_spec)

\* C17: Find without a path constraint (no find_specs, or a FindSpec built
\* with no pattern) yields the path of every key below the root, at every
\* depth, and not the root.
C17_FindEveryKey ==
  (/\ last.op = "Find"
   /\ \/ last.result.value[1] = <<>>
      \/ /\ last.result.value[1] = <<1>>
         /\ ~find_spec.has_key_path_segments)
  => /\ last.result.kind = "list"
     /\ Range(last.result.value[2]) = Range(SearchKeys)

\* The arguments of FindSpec that are given, that is not None
Supplied(arguments) ==
  {i \in 1..Len(arguments) : arguments[i].type # "NoneType"}

\* C18: FindSpec accepts at most one of key_path, key_path_glob and
\* key_path_regex: with two or three of them given it raises ValueError, with
\* exactly one given, as a string or as a list of segments, it succeeds.
C18_AtMostOnePattern ==
  last.op = "FindSpec" =>
    LET arguments == last.result.value
    IN /\ Cardinality(Supplied(arguments)) >= 2
            => last.result.kind = "ValueError"
       /\ (/\ Cardinality(Supplied(arguments)) = 1
           /\ \A i \in Supplied(arguments) :
                arguments[i].type \in {"str", "list"})
            => last.result.kind = "FindSpec"

\* The segment at index (counted from 0) is a regular expression that does
\* not compile
Malformed(self_, index) ==
  /\ self_.is_regex
  /\ index + 1 \in DOMAIN self_.key_path_segments
  /\ self_.key_path_segments[index + 1].type = "str"
  /\ CompileRaises(self_.key_path_segments[index + 1].value)

\* Every comparison with a malformed segment returned False
MalformedNeverMatches ==
  /\ (/\ last.op = "_CompareWithKeyPathSegment"
      /\ Malformed(find_spec, last.result.value[2]))
       => last.result.kind = "bool" /\ ~last.result.value[3]
  /\ (/\ last.op = "_CheckKeyPath"
      /\ Malformed(find_spec, last.result.value[2] - 1))
       => last.result.kind = "bool" /\ ~last.result.value[3]

\* C19: a FindSpec with a malformed regex segment never raises when it is
\* compared: every comparison with that segment returns False, the first and
\* every later one, and a Find with such a spec among its find_specs runs
\* to its end and yields the matches of the other specs.
C19_MalformedRegexIsNoMatch ==
  /\ MalformedNeverMatches
  /\ (/\ last.op = "Find"
      /\ 1 \in Range(last.result.value[1])
      /\ \E index \in 0..MaxSegmentIndex : Malformed(find_spec, index))
       => /\ last.result.kind = "list"
          /\ 2 \in Range(last.result.value[1])
               => Range(SearchKeys) \subseteq Range(last.result.value[2])

\* C20: Matches(key, depth) returns true only when depth is the number of
\* segments of the spec and every segment 1..depth is satisfied by the
\* segment of the path of the key at its place; a spec without a path
\* constraint matches every key at every depth.
C20_MatchesFullPath ==
  (last.op = "Matches" /\ last.result.kind = "tuple") =>
    LET registry_key == last.result.value[1]
        search_depth == last.result.value[2]
        result == last.result.value[3][1] = "True"
    IN IF ~find_spec.has_key_path_segments THEN result
       ELSE result =>
              /\ search_depth = find_spec.number_of_key_path_segments
              /\ PathSatisfied(find_spec, registry_key, search_depth)

----------------------------------------------------------------------------
(* The functions of dfwinreg/key_paths.py and dfwinreg/glob2regex.py,       *)
(* called with arguments of bounded length.                                 *)

\* The strings made of the elements of a sequence, in order
RECURSIVE Concat(_)
Concat(strings) ==
  IF Len(strings) = 0 THEN "" ELSE strings[1] \o Concat(Tail(strings))

\* The sequences of at most n elements of a set
SeqsUpTo(set, n) == UNION {[1..k -> set] : k \in 0..n}

\* Path segments handed to JoinKeyPath: empty, a separator, names, a root
\* key, and segments with doubled, leading and trailing separators
PathSegments == {"", "\\", "a", "HKEY_A", "a\\\\b", "\\HKEY_A\\"}

\* JoinKeyPath is called with at most this many path segments
MaxPathSegments == 3

\* Parts of the key paths handed to SplitKeyPath; an empty part makes a
\* leading, a trailing or a doubled separator
KeyPathParts == {"", "HKEY_LOCAL_MACHINE", "System", "HKLM"}

\* SplitKeyPath is called with key paths of at most this many parts
MaxKeyPathParts == 3

SplitKeyPaths ==
  {StrJoin(parts) : parts \in SeqsUpTo(KeyPathParts, MaxKeyPathParts)}

\* The characters of the globs handed to Glob2Regex
GlobAlphabet == {"a", "*", "?", ".", "[", "]", "!", "\\"}

\* Glob2Regex is called with globs of at most this many characters
MaxGlobLength == 3

Globs ==
  {Concat(characters) : characters \in SeqsUpTo(GlobAlphabet, MaxGlobLength)}
    \cup {"*.txt", "[!abc]", "a[b]?[c", "^$+", "{}|", "()"}

\* A call of a function that has not returned yet
Called(function, argument) ==
  [op |-> "call", result |-> [kind |-> function, value |-> <<argument>>]]

InitKeyPaths ==
  /\ registry_files = [p \in {} |-> None]
  /\ file_prefix = [f \in Files |-> ""]
  /\ reader = NoReader
  /\ select = [n \in SelectNames |-> NoValue]
  /\ virtual_key = RootVirtualKey
  /\ queries = 0
  /\ \/ \E path_segments \in SeqsUpTo(PathSegments, MaxPathSegments) :
          last = Called("JoinKeyPath", path_segments)
     \/ \E key_path \in SplitKeyPaths :
          last = Called("SplitKeyPath", key_path)
     \/ \E glob_pattern \in Globs :
          last = Called("Glob2Regex", glob_pattern)
  /\ Untouched

KeyPathsUnchanged ==
  UNCHANGED <<registry_files, file_prefix, reader, select, virtual_key,
              queries, lifetime_vars, searcher_vars>>

\* key_paths.JoinKeyPath(path_segments)
DoJoinKeyPath ==
  /\ last.op = "call"
  /\ last.result.kind = "JoinKeyPath"
  /\ LET path_segments == last.result.value[1] IN
    /\ last' = [op |-> "JoinKeyPath",
                result |-> [kind |-> "str",
                            value |-> <<path_segments,
                                        JoinKeyPath(path_segments)>>]]
    /\ KeyPathsUnchanged

\* key_paths.SplitKeyPath(key_path)
DoSplitKeyPath ==
  /\ last.op = "call"
  /\ last.result.kind = "SplitKeyPath"
  /\ LET key_path == last.result.value[1] IN
    /\ last' = [op |-> "SplitKeyPath",
                result |-> [kind |-> "list",
                            value |-> <<key_path, SplitKeyPath(key_path)>>]]
    /\ KeyPathsUnchanged

\* glob2regex.Glob2Regex(glob_pattern)
DoGlob2Regex ==
  /\ last.op = "call"
  /\ last.result.kind = "Glob2Regex"
  /\ LET glob_pattern == last.result.value[1]
         r == Glob2Regex(glob_pattern)
     IN /\ last' = [op |-> "Glob2Regex",
                   result |-> Outcome(r, "str", <<glob_pattern, r.regex>>)]
       /\ KeyPathsUnchanged

NextKeyPaths == DoJoinKeyPath \/ DoSplitKeyPath \/ DoGlob2Regex

SpecKeyPaths == InitKeyPaths /\ [][NextKeyPaths]_vars

\* C21: for every sequence s of path segments, with empty segments, segments
\* that hold separators, repeated separators and the empty sequence among
\* them, JoinKeyPath([JoinKeyPath(s)]) = JoinKeyPath(s).
C21_JoinIdempotent ==
  last.op = "JoinKeyPath" =>
    JoinKeyPath(<<last.result.value[2]>>) = last.result.value[2]

C21_Witness ==
  /\ last.op = "JoinKeyPath"
  /\ last.result.value[1] = <<"", "a\\\\b", "\\HKEY_A\\">>
  /\ last.result.value[2] = "\\a\\b\\HKEY_A"

\* A key path that begins with the name of a root key and has no empty
\* segment
Normalized(key_path) ==
  LET path_segments == StrSplit(key_path)
  IN /\ path_segments[1] \in ROOT_KEYS
     /\ \A i \in 1..Len(path_segments) : path_segments[i] # ""

\* C22: for every normalized absolute key path p (it begins with the name of
\* a root key, has no empty segment and single separators)
\* JoinKeyPath(SplitKeyPath(p)) = p, and SplitKeyPath returns no empty
\* segment, whatever leading, trailing or doubled separators p has.
C22_SplitJoinRoundTrip ==
  last.op = "SplitKeyPath" =>
    LET key_path == last.result.value[1]
        path_segments == last.result.value[2]
    IN /\ \A i \in 1..Len(path_segments) : path_segments[i] # ""
       /\ Normalized(key_path) => JoinKeyPath(path_segments) = key_path

C22_Witness ==
  /\ last.op = "SplitKeyPath"
  /\ last.result.value[1] = "HKEY_LOCAL_MACHINE\\System"
  /\ last.result.value[2] = <<"HKEY_LOCAL_MACHINE", "System">>
  /\ JoinKeyPath(last.result.value[2]) = last.result.value[1]

\* The last index of the token of glob that starts at i: a bracket
\* expression '[', characters other than ']', ']'; a lone '['; or a maximal
\* run of characters other than '['
TokenEnd(glob, i) ==
  IF CharAt(glob, i) = "["
  THEN LET closing ==
             {j \in i + 2..Len(glob) :
                /\ CharAt(glob, j) = "]"
                /\ \A k \in i + 1..j - 1 : CharAt(glob, k) # "]"}
       IN IF closing = {} THEN i ELSE CHOOSE j \in closing : TRUE
  ELSE CHOOSE j \in i..Len(glob) :
         /\ \A k \in i..j : CharAt(glob, k) # "["
         /\ j = Len(glob) \/ CharAt(glob, j + 1) = "["

\* The characters with a meaning in a regular expression that an ordinary
\* run can hold ('*' and '?' are the wildcards of the glob)
RegexMetacharacters ==
  {"\\", ".", "^", "$", "+", "{", "}", "|", "(", ")", "]"}

\* The translation of a token
TokenTranslated(token) ==
  IF token = "[" THEN "\\["
  ELSE IF CharAt(token, 1) = "["
  THEN IF CharAt(token, 2) = "!"
       THEN "[^" \o DoubleBackslashes(SliceFrom(token, 2))
       ELSE DoubleBackslashes(token)
  ELSE Concat([i \in 1..Len(token) |->
         LET c == CharAt(token, i)
         IN IF c \in RegexMetacharacters THEN "\\" \o c
            ELSE IF c = "*" THEN ".*"
            ELSE IF c = "?" THEN "."
            ELSE c])

\* The translations of the tokens of glob from index i on, in order
RECURSIVE TokensTranslated(_, _)
TokensTranslated(glob, i) ==
  IF i > Len(glob) THEN ""
  ELSE TokenTranslated(SubSeq(glob, i, TokenEnd(glob, i)))
         \o TokensTranslated(glob, TokenEnd(glob, i) + 1)

\* C23: Glob2Regex translates a non-empty glob as the concatenation, in
\* order, of the translations of its tokens: in an ordinary run every regex
\* metacharacter is escaped, '*' becomes '.*' and '?' becomes '.'; a lone
\* '[' becomes '\['; a bracket expression that starts with '[!' starts with
\* '[^'. Glob2Regex('*.txt') is '.*\.txt'. An empty glob raises ValueError.
C23_Glob2RegexTokens ==
  last.op = "Glob2Regex" =>
    LET glob_pattern == last.result.value[1]
        regex == last.result.value[2]
    IN IF glob_pattern = "" THEN last.result.kind = "ValueError"
       ELSE /\ last.result.kind = "str"
            /\ regex = TokensTranslated(glob_pattern, 1)
            /\ glob_pattern = "*.txt" => regex = ".*\\.txt"
            /\ StartsWith(glob_pattern, "[!abc]") => StartsWith(regex, "[^")

C23_Witness ==
  /\ last.op = "Glob2Regex"
  /\ last.result.value[1] = "a[b]?[c"
  /\ last.result.value[2] = "a[b].\\[c"

----------------------------------------------------------------------------
(* The lookup of the file of a key path: _GetCachedFileByPath,              *)
(* _GetFileByPath and GetKeyByPath of a registry whose table is filled by   *)
(* MapFile and by the files opened on demand.                               *)

\* A reader over a profile without a readable UsrClass.dat: NTUSER.DAT
\* opens, UsrClass.dat cannot be read at its current location and is not
\* found at its Local Settings location.
ProfileReader ==
  [present |-> TRUE,
   open |-> [path \in WindowsPaths |->
     CASE path = "%UserProfile%\\NTUSER.DAT" -> "openNTUSER"
       [] path = "%UserProfile%\\AppData\\Local\\Microsoft\\Windows\\UsrClass.dat"
            -> "IOError"
       [] OTHER -> None]]

LookupReaders == {NoReader, MappedReader, LegacyReader, ProfileReader}

\* The MapFile calls of the callers
LookupMapCalls ==
  {<<"HKEY_LOCAL_MACHINE\\System", "callerSYSTEM">>,
   <<"HKEY_CURRENT_USER", "callerNTUSER">>}

\* Upper-cased key paths _GetCachedFileByPath and _GetFileByPath are asked
LookupKeyPathsUpper ==
  {"HKEY_CURRENT_USER", "HKEY_CURRENT_USER\\SOFTWARE\\CLASSES",
   "HKEY_CURRENT_USER\\ENVIRONMENT", "HKEY_LOCAL_MACHINE\\SYSTEM",
   "HKEY_LOCAL_MACHINE\\SYSTEMX\\FOO", "HKEY_USERS\\S-1-5-18"}

\* Key paths GetKeyByPath is asked
LookupKeyPaths ==
  {"HKEY_LOCAL_MACHINE\\System\\CurrentControlSet\\Enum",
   "HKEY_LOCAL_MACHINE\\System\\CurrentControlSetX",
   "hklm\\system\\currentcontrolsetenum",
   "HKEY_LOCAL_MACHINE\\SystemX\\Foo"}

InitLookup ==
  /\ registry_files = [p \in {} |-> None]
  /\ file_prefix = [f \in Files |-> ""]
  /\ reader \in LookupReaders
  /\ select \in {[n \in SelectNames |-> NoValue],
                 [n \in SelectNames |->
                    IF n = "CURRENT" THEN Value(REG_DWORD, 1) ELSE NoValue]}
  /\ virtual_key = RootVirtualKey
  /\ queries = 0
  /\ last = NoCall
  /\ Untouched

LookupUnchanged ==
  UNCHANGED <<reader, select, virtual_key, queries, lifetime_vars,
              searcher_vars>>

\* win_registry.MapFile(key_path_prefix, registry_file)
LookupMapFile ==
  \E call \in LookupMapCalls :
    LET after == MapFile(self, call[1], call[2])
    IN /\ registry_files' = after.files
       /\ file_prefix' = after.prefix
       /\ last' = [op |-> "MapFile", result |-> NoneResult]
       /\ LookupUnchanged

\* win_registry._GetCachedFileByPath(key_path_upper): the tuple it returns
LookupGetCachedFileByPath ==
  \E key_path_upper \in LookupKeyPathsUpper :
    LET cached == GetCachedFileByPath(self, key_path_upper)
    IN /\ last' = [op |-> "_GetCachedFileByPath",
                   result |-> [kind |-> "tuple",
                               value |-> <<key_path_upper, cached.prefix,
                                           cached.file>>]]
       /\ UNCHANGED <<registry_files, file_prefix>>
       /\ LookupUnchanged

\* win_registry._GetFileByPath(key_path_upper): the tuple it returns, with
\* the table before and after the call
LookupGetFileByPath ==
  \E key_path_upper \in LookupKeyPathsUpper :
    LET got == GetFileByPath(self, key_path_upper)
    IN /\ registry_files' = got.self.files
       /\ file_prefix' = got.self.prefix
       /\ last' = [op |-> "_GetFileByPath",
                   result |-> [kind |-> "tuple",
                               value |-> <<key_path_upper, got.prefix,
                                           got.file, registry_files,
                                           got.self.files>>]]
       /\ LookupUnchanged

\* win_registry.GetKeyByPath(key_path): the key it returns or what it raises
LookupGetKeyByPath ==
  \E key_path \in LookupKeyPaths :
    LET got == GetKeyByPath(self, key_path)
    IN /\ registry_files' = got.self.files
       /\ file_prefix' = got.self.prefix
       /\ last' = [op |-> "GetKeyByPath",
                   result |-> [kind |-> got.result.kind,
                               value |-> <<key_path, got.result>>]]
       /\ LookupUnchanged

NextLookup ==
  \/ LookupMapFile
  \/ LookupGetCachedFileByPath
  \/ LookupGetFileByPath
  \/ LookupGetKeyByPath

SpecLookup == InitLookup /\ [][NextLookup]_vars

\* A table that holds exactly the NTUSER.DAT hive _GetFileByPath opened for
\* HKEY_CURRENT_USER
OnlyCurrentUserMapped(files) ==
  /\ DOMAIN files = {"HKEY_CURRENT_USER"}
  /\ files["HKEY_CURRENT_USER"] = "openNTUSER"

\* C24: with a reader that opens every conventional hive,
\* _GetFileByPath('HKEY_CURRENT_USER\SOFTWARE\CLASSES') returns the prefix
\* HKEY_CURRENT_USER\SOFTWARE\CLASSES and a file, both as the first request
\* of a registry and after _GetFileByPath('HKEY_CURRENT_USER') mapped the
\* shorter prefix.
C24_ClassesPrefixInEitherOrder ==
  ( /\ last.op = "_GetFileByPath"
    /\ reader = MappedReader
    /\ last.result.value[1] = "HKEY_CURRENT_USER\\SOFTWARE\\CLASSES"
    /\ \/ DOMAIN last.result.value[4] = {}
       \/ OnlyCurrentUserMapped(last.result.value[4]) )
  => /\ last.result.value[2] = "HKEY_CURRENT_USER\\SOFTWARE\\CLASSES"
     /\ last.result.value[3] # None

\* The mappings of the table that are candidates for a key path, as indexes
Candidates(key_path_upper) ==
  {i \in 1..Len(REGISTRY_FILE_MAPPINGS_NT) :
     StartsWith(key_path_upper,
                Upper(REGISTRY_FILE_MAPPINGS_NT[i].key_path_prefix))}

\* The reader opens the file of mapping i
Opens(i) ==
  /\ reader.present
  /\ reader.open[REGISTRY_FILE_MAPPINGS_NT[i].windows_path]
       \notin {None, "IOError"}

\* Candidate i is tried before candidate j: the longer prefix first, and of
\* two prefixes of one length the one that is first in the table
TriedBefore(i, j) ==
  LET length(k) == Len(REGISTRY_FILE_MAPPINGS_NT[k].key_path_prefix)
  IN length(i) > length(j) \/ (length(i) = length(j) /\ i < j)

\* The table with one more entry
TableWith(files, key_path_prefix_upper, registry_file) ==
  [p \in DOMAIN files \cup {key_path_prefix_upper} |->
     IF p = key_path_prefix_upper THEN registry_file ELSE files[p]]

IsSegmentPrefix(prefix, key_path) ==
  \/ prefix = key_path
  \/ StartsWith(key_path, prefix \o KEY_PATH_SEPARATOR)

\* C26: the prefix of the file _GetCachedFileByPath returns ends at a
\* segment boundary of the key path: HKEY_LOCAL_MACHINE\SYSTEMX\FOO is not
\* served by the file mapped at HKEY_LOCAL_MACHINE\SYSTEM.
C26_CachedPrefixAtSegmentBoundary ==
  ( /\ last.op = "_GetCachedFileByPath"
    /\ last.result.value[3] # None )
  => IsSegmentPrefix(last.result.value[2], last.result.value[1])

\* The key of a hive whose path is the end of the key path asked for
KeyOfLiteralPath(result, key_path) ==
  \E n \in 0..Len(key_path) : result.key = Upper(SliceFrom(key_path, n))

\* C27: only HKEY_LOCAL_MACHINE\System\CurrentControlSet and the key paths
\* below it are redirected to the current control set: for every other key
\* path GetKeyByPath raises nothing about the virtual key and a key it
\* returns is the key of the hive at the path as it was asked, so
\* HKEY_LOCAL_MACHINE\System\CurrentControlSetX is not rewritten.
C27_RedirectsOnlyBelowVirtualKey ==
  LET key_path == last.result.value[1]
      result == last.result.value[2]
  IN ( /\ last.op = "GetKeyByPath"
       /\ ~IsSegmentPrefix(VirtualKeyPathUpper, ResolvedPathUpper(key_path)) )
     => /\ result.kind # "RuntimeError"
        /\ result.kind = "key" => KeyOfLiteralPath(result, key_path)

----------------------------------------------------------------------------
(* Properties of the comparisons and of the traversal, checked under        *)
(* SpecSearcher                                                             *)

\* C28: _CompareWithKeyPathSegment, and CompareNameWithKeyPathSegment which
\* _FindInKey calls, never raise, whatever the segment index: with an index
\* equal to the number of segments of the find specification the comparison
\* returns False, and a search with such a find specification ends without
\* an IndexError.
C28_CompareNeverRaises ==
  /\ last.op = "_CompareWithKeyPathSegment"
       => /\ last.result.kind = "bool"
          /\ ( /\ find_spec.has_key_path_segments
               /\ last.result.value[2] = find_spec.number_of_key_path_segments )
               => ~last.result.value[3]
  /\ last.op \in {"_FindInKey", "Find"} => last.result.kind # "IndexError"

\* No element of a sequence is in it twice
NoDuplicates(sequence) ==
  \A i, j \in 1..Len(sequence) : sequence[i] = sequence[j] => i = j

\* C29: one search yields the path of a key at most once, also when several
\* of its find specifications match the key.
C29_YieldsEachKeyOnce ==
  /\ last.op = "_FindInKey" => NoDuplicates(last.result.value[3])
  /\ last.op = "Find" => NoDuplicates(last.result.value[2])

----------------------------------------------------------------------------
(* The subkeys of a virtual key and their index by name, checked under      *)
(* SpecVirtual                                                              *)

\* _subkeys_by_name has one entry for every subkey of _subkeys, under the
\* upper-cased name of the subkey, with the position of the subkey
IndexAgrees(vk) ==
  /\ Cardinality(DOMAIN vk.subkeys_by_name) = Len(vk.subkeys)
  /\ \A i \in 1..Len(vk.subkeys) :
       /\ Upper(vk.subkeys[i].name) \in DOMAIN vk.subkeys_by_name
       /\ vk.subkeys_by_name[Upper(vk.subkeys[i].name)] = i - 1

\* The reads of a key, m being the outcome of the guard they start with:
\* number_of_subkeys is the number of keys of GetSubkeys, GetSubkeyByIndex(i)
\* is the subkey at position i and raises IndexError outside 0..n-1
ReadsAgree(m) ==
  LET n == Len(m.vk.subkeys)
  IN /\ m.raised = ""
     /\ VirtualNumberOfSubkeys(m).result
          = IntResult(Len(VirtualGetSubkeys(m).result.value))
     /\ \A index \in -2..n + 1 :
          VirtualGetSubkeyByIndex(m, index).result
            = IF 0 <= index /\ index < n
              THEN SubkeyResult(m.vk.subkeys[index + 1])
              ELSE Raised("IndexError")

\* AddSubkey(name, child) on vk: when it raises, the key and the child are
\* as before; when it returns, the child is the last subkey and the subkeys
\* before it are as before
AddKeepsOrder(vk, name, child) ==
  LET added == AddSubkey(vk, name, child)
  IN IF added.raised # ""
     THEN added.vk = vk /\ added.registry_key = child
     ELSE /\ IndexAgrees(added.vk)
          /\ added.vk.subkeys = Append(vk.subkeys, added.registry_key)

\* The key after the materialization that a read starts with
AfterMaterialization(first) ==
  /\ IndexAgrees(first.vk)
  /\ SubSeq(first.vk.subkeys, 1, Len(virtual_key.subkeys))
       = virtual_key.subkeys
  /\ ReadsAgree(Materialized(first.vk, first.self))
  /\ \A name \in NamesAdded :
       AddKeepsOrder(first.vk, name, Subkey(name, None, ""))

====
